---- MODULE Spec2Model ----
(***************************************************************************)
(* HandControl: the beat-scheduling engine (MetronomeEngine), the pattern  *)
(* index arithmetic (data/patterns.ts) and the sequencing controller       *)
(* (hooks/useMetronome.ts), as state machines.                             *)
(*                                                                         *)
(* Time is counted in ticks of 1/240 s, so that the 25 ms polling period,  *)
(* the 100 ms scheduling horizon, the 50 ms start offset and the note      *)
(* interval 60/bpm/notesPerBeat are whole numbers for the tempi used.      *)
(* nextNoteTime is kept relative to audioContext.currentTime as it was     *)
(* read by the last polling pass (or by start()): only polling passes read *)
(* the clock, and each pass first moves the clock on by the time elapsed.  *)
(***************************************************************************)
EXTENDS Integers, Sequences, FiniteSets, TLC

VARIABLES
    engine,         \* the MetronomeEngine object and the browser objects it owns
    stopSinceStart, \* history: stop() has returned and start() was not called since
    disposed,       \* history: dispose() has been called
    stale,          \* history: for each pending visual timer, whether a stop() returned since it was created
    lastOp,         \* history: the last step's engine call, and whether the engine was Running before it
    lastFire,       \* history: what the visual timer delivered, when the last step was a timer firing
    beatLog,        \* history: the beat index of the timer that fired last in this run
    lastPass,       \* history: the notes scheduled, when the last step was a polling pass
    st,             \* controller: the React state as last rendered
    nx,             \* controller: the React state with the queued updates applied
    refs,           \* controller: nextPatternRef, currentRepeatRef, lastProcessedCurrentRef
    cb,             \* controller: the values the installed callbacks closed over
    awaiting,       \* controller: togglePlay calls awaiting engine.start()
    ctlHist,        \* history of the controller's transitions
    calc            \* patterns: the length and index given, and the patterns computed from them

engineVars == <<engine, stopSinceStart, disposed, stale, lastOp, lastFire, beatLog, lastPass>>
ctlVars == <<st, nx, refs, cb, awaiting, ctlHist, calc>>
vars == <<engineVars, ctlVars>>

\* ------------------------------------------------------------------ bounds
\* The first NumNoteValues entries of NOTE_VALUES are offered to setNoteValue.
NumNoteValues == 2
\* The first NumTimeSignatures keys of TIME_SIGNATURE_CONFIGS are offered to
\* setTimeSignature.
NumTimeSignatures == 2
\* Visual timers pending at once.
MaxTimers == 2
\* Interval timers alive at once (the one in timerID and the leaked ones).
MaxIntervals == 2
\* start() calls suspended at await audioContext.resume() at once.
MaxPending == 2
\* A polling pass that comes late comes LatePolls polling periods after the last.
LatePolls == 20
\* Math.random() yields the first NumRandomLow pattern indices and the last one.
NumRandomLow == 1
\* Updates the controller queues before React renders.
MaxUnrendered == 2
\* Pattern transitions between two jumps or resets.
MaxTransitions == 2
\* The history counts the cycles a pattern was current up to MaxCycles.
MaxCycles == 5
\* getPatternAtIndex is given every index of every length up to MaxExhaustiveLength.
MaxExhaustiveLength == 16
\* reversePattern is applied to a pattern and to its results MaxReversals times.
MaxReversals == 2
\* The index functions are given every measure length up to MaxIndexLength.
MaxIndexLength == 8
\* Setter calls in one behaviour of the setters-while-running specification.
MaxSetterCalls == 2
\* Visual timers pending at once in the polling specification.
MaxPassTimers == 6

\* ------------------------------------------------------------------ types
\* The value JavaScript gives x % 0 (and every later result computed from it).
NaN == -1

\* Milliseconds and seconds/minute in ticks of 1/240 s.
MsToTicks(ms) == (ms * 6) \div 25
TicksPerMinuteX4 == 60 * 240 * 4

NOTE_VALUES ==
    << [value |-> "whole", notesPerBeatX4 |-> 1],
       [value |-> "half", notesPerBeatX4 |-> 2],
       [value |-> "quarter", notesPerBeatX4 |-> 4],
       [value |-> "eighth", notesPerBeatX4 |-> 8],
       [value |-> "sixteenth", notesPerBeatX4 |-> 16],
       [value |-> "eighth-triplet", notesPerBeatX4 |-> 12],
       [value |-> "sixteenth-triplet", notesPerBeatX4 |-> 24] >>

TIME_SIGNATURES == <<"4/4", "3/4", "2/4", "6/8">>

TIME_SIGNATURE_CONFIGS ==
    [ts \in {"4/4", "3/4", "2/4", "6/8"} |->
        CASE ts = "4/4" -> [beatsPerMeasure |-> 4, beatUnit |-> 4, isCompound |-> FALSE]
          [] ts = "3/4" -> [beatsPerMeasure |-> 3, beatUnit |-> 4, isCompound |-> FALSE]
          [] ts = "2/4" -> [beatsPerMeasure |-> 2, beatUnit |-> 4, isCompound |-> FALSE]
          [] ts = "6/8" -> [beatsPerMeasure |-> 6, beatUnit |-> 8, isCompound |-> TRUE]]

\* notesPerBeat times 4 (0.25 -> 1, ..., 6 -> 24); 1 (x4) for a value not in the table.
getNotesPerBeatX4(noteValue) ==
    LET found == {i \in DOMAIN NOTE_VALUES : NOTE_VALUES[i].value = noteValue}
    IN  IF found = {} THEN 4 ELSE NOTE_VALUES[CHOOSE i \in found : TRUE].notesPerBeatX4

\* Math.floor(notesPerBeat * beatsPerMeasure)
getNotesPerMeasure(noteValue, beatsPerMeasure) ==
    (getNotesPerBeatX4(noteValue) * beatsPerMeasure) \div 4

getNotesPerMeasureForTimeSignature(noteValue, timeSignature) ==
    getNotesPerMeasure(noteValue, TIME_SIGNATURE_CONFIGS[timeSignature].beatsPerMeasure)

\* JavaScript's a % b on integers, b > 0: the remainder has the sign of a.
JsRem(a, b) == IF a >= 0 THEN a % b ELSE -((-a) % b)

\* JavaScript's a % b where a is a beat index (never negative) or NaN: NaN when a
\* is NaN or b is 0.
JsMod(a, b) == IF a = NaN \/ b = 0 THEN NaN ELSE JsRem(a, b)

\* a + 1 in JavaScript: NaN stays NaN.
JsInc(a) == IF a = NaN THEN NaN ELSE a + 1

RECURSIVE Pow2(_)
Pow2(n) == IF n = 0 THEN 1 ELSE 2 * Pow2(n - 1)

NoteValueInputs == {NOTE_VALUES[i].value : i \in 1..NumNoteValues}
TimeSignatureInputs == {TIME_SIGNATURES[i] : i \in 1..NumTimeSignatures}
BpmInputs == {0, 120, 1000}
ClickModes == {"every-note", "quarter-only"}
\* Arguments of setVolume, in hundredths: silent and above the range.
VolumeInputs == {0, 200}
\* Arguments of the controller's setRepeatCount (clamped to 1..32).
RepeatCountInputs == {0, 2}
\* Arguments below, at, inside and above the ranges of setBpm (20..300),
\* setVolume (0..1, in hundredths) and setRepeatCount (1..32).
SetterBpmInputs == {-5, 0, 19, 20, 21, 120, 299, 300, 301, 1000}
SetterVolumeInputs == {-100, -1, 0, 1, 50, 99, 100, 101, 200}
SetterRepeatCountInputs == {-1, 0, 1, 2, 31, 32, 33, 100}
\* Arguments of jumpToPattern for patterns of that length: below, in and above
\* the range of indices.
JumpInputs(length) == {-1, 3 * Pow2(length)}

\* ------------------------------------------------------------------ MetronomeEngine
lookaheadInterval == 25
scheduleAheadTimeMs == 100
startOffsetMs == 50
clickFrequencyHigh == 1000
clickFrequencyLow == 800

Min(a, b) == IF a < b THEN a ELSE b
Max(a, b) == IF a > b THEN a ELSE b

\* The object after its field initialisers, before the constructor body runs.
\* hasWindow: typeof window !== 'undefined'. timerID 0 is null. volume is in
\* hundredths. intervals are the
\* handles setInterval gave out that were not cleared; timers are the pending
\* setTimeout callbacks of scheduleNote, oldest first, each with the beatIndex and
\* totalNotes its closure captured.
\* pendingStarts are the start() calls suspended at await resume(); doomedStarts
\* those whose context was closed meanwhile.
NewEngine(hasWindow) ==
    [ hasWindow |-> hasWindow, audioContext |-> "null", isPlaying |-> FALSE,
      bpm |-> 120, noteValue |-> "eighth", timeSignature |-> "4/4",
      beatsPerMeasure |-> 4, currentBeat |-> 0, notesInMeasure |-> 8,
      twoMeasureMode |-> FALSE, clickMode |-> "every-note", volume |-> 50,
      nextNoteTime |-> 0,
      timerID |-> 0, callbacks |-> FALSE, intervals |-> {}, timers |-> <<>>,
      pendingStarts |-> 0, doomedStarts |-> 0 ]

\* A context created after an earlier one was closed starts its clock at 0 again:
\* the old nextNoteTime, at least the horizon once a pass has run, stays ahead of it.
initAudioContext(e, ctxState) ==
    IF e.hasWindow /\ e.audioContext = "null"
    THEN [e EXCEPT !.audioContext = ctxState,
                   !.nextNoteTime = Max(@, MsToTicks(scheduleAheadTimeMs))]
    ELSE e

setCallbacks(e) == [e EXCEPT !.callbacks = TRUE]

\* setBpm without the clamp.
setBpmUnclamped(e, bpm) == [e EXCEPT !.bpm = bpm]

setBpm(e, bpm) == [e EXCEPT !.bpm = Max(20, Min(300, bpm))]

\* Math.max(0, Math.min(1, vol)), in hundredths.
setVolume(e, vol) == [e EXCEPT !.volume = Max(0, Min(100, vol))]

updateNotesInMeasure(e) ==
    [e EXCEPT !.notesInMeasure = (getNotesPerBeatX4(e.noteValue) * e.beatsPerMeasure) \div 4]

\* setNoteValue that also starts the cycle again.
setNoteValueRestarting(e, noteValue) ==
    updateNotesInMeasure([e EXCEPT !.noteValue = noteValue, !.currentBeat = 0])

setNoteValue(e, noteValue) == updateNotesInMeasure([e EXCEPT !.noteValue = noteValue])

setTimeSignature(e, timeSignature) ==
    updateNotesInMeasure(
        [e EXCEPT !.timeSignature = timeSignature,
                  !.beatsPerMeasure = TIME_SIGNATURE_CONFIGS[timeSignature].beatsPerMeasure])

setTwoMeasureMode(e, enabled) == [e EXCEPT !.twoMeasureMode = enabled]

setClickMode(e, mode) == [e EXCEPT !.clickMode = mode]

getTotalNotesInCycle(e) ==
    IF e.twoMeasureMode THEN e.notesInMeasure * 2 ELSE e.notesInMeasure

\* getNoteInterval without the division by notesPerBeat.
getBeatInterval(e) == TicksPerMinuteX4 \div (e.bpm * 4)

\* (60 / bpm) / notesPerBeat seconds, in ticks.
getNoteInterval(e) == TicksPerMinuteX4 \div (e.bpm * getNotesPerBeatX4(e.noteValue))

\* shouldPlayClick without its quarter-only branch.
shouldPlayClickEveryNote(e, beatIndex) == e.clickMode \in ClickModes

\* positionInMeasure % notesPerBeat === 0, with notesPerBeat = X4 / 4.
shouldPlayClick(e, beatIndex) ==
    IF e.clickMode = "every-note" THEN TRUE
    ELSE LET positionInMeasure == JsMod(beatIndex, e.notesInMeasure)
         IN  positionInMeasure # NaN
             /\ JsMod(4 * positionInMeasure, getNotesPerBeatX4(e.noteValue)) = 0

\* scheduleNote's visual callback: the closure captures beatIndex and totalNotes.
NewTimer(e, beatIndex) ==
    [beatIndex |-> beatIndex, totalNotes |-> getTotalNotesInCycle(e)]

\* scheduleNote: beatIndex % this.notesInMeasure.
positionInMeasure(e, beatIndex) == JsMod(beatIndex, e.notesInMeasure)

\* scheduleNote: isDownbeat || isMeasure2Downbeat.
isDownbeatTier(e, beatIndex) ==
    \/ beatIndex = 0
    \/ e.twoMeasureMode /\ beatIndex = e.notesInMeasure

\* isStrongBeat with the rule of the simple signatures for every signature.
isStrongBeatSimple(e, beatIndex) ==
    LET p == positionInMeasure(e, beatIndex)
    IN  p # NaN /\ JsMod(4 * p, getNotesPerBeatX4(e.noteValue)) = 0

\* scheduleNote: isStrongBeat. NaN equals nothing and NaN % x is NaN.
isStrongBeat(e, beatIndex) ==
    LET p == positionInMeasure(e, beatIndex)
    IN  IF TIME_SIGNATURE_CONFIGS[e.timeSignature].isCompound
        THEN p # NaN /\ (p = 0 \/ p = e.notesInMeasure \div 2)
        ELSE p # NaN /\ JsMod(4 * p, getNotesPerBeatX4(e.noteValue)) = 0

\* scheduleNote: the oscillator's frequency in Hz and its gain in percent of
\* this.volume.
accentTier(e, beatIndex) ==
    IF isDownbeatTier(e, beatIndex)
    THEN [frequency |-> clickFrequencyHigh, gain |-> 100]
    ELSE IF isStrongBeat(e, beatIndex)
         THEN [frequency |-> clickFrequencyLow, gain |-> 80]
         ELSE [frequency |-> (clickFrequencyLow * 8) \div 10, gain |-> 50]

\* What scheduleNote hands to the audio clock for one note: click is whether an
\* oscillator is started for it, tier its frequency and gain, volume the
\* this.volume the gain is taken of, time its start relative to the clock as the
\* pass read it (afterStop is history).
NewNote(e, time, beatIndex, afterStop) ==
    [beatIndex |-> beatIndex, click |-> shouldPlayClick(e, beatIndex),
     tier |-> accentTier(e, beatIndex), volume |-> e.volume, time |-> time,
     afterStop |-> afterStop]

\* An if in place of the while: one note at most in a pass.
schedulerLoopOnce(e, notes, afterStop) ==
    IF e.nextNoteTime < MsToTicks(scheduleAheadTimeMs)
    THEN [engine |-> [e EXCEPT !.timers = Append(@, NewTimer(e, e.currentBeat)),
                               !.nextNoteTime = @ + getNoteInterval(e),
                               !.currentBeat = JsMod(JsInc(@), getTotalNotesInCycle(e))],
          notes |-> Append(notes, NewNote(e, e.nextNoteTime, e.currentBeat, afterStop))]
    ELSE [engine |-> e, notes |-> notes]

\* scheduler()'s while loop: e is the engine so far, notes the notes scheduled so far.
RECURSIVE schedulerLoop(_, _, _)
schedulerLoop(e, notes, afterStop) ==
    IF e.nextNoteTime < MsToTicks(scheduleAheadTimeMs)
    THEN schedulerLoop(
             [e EXCEPT !.timers = Append(@, NewTimer(e, e.currentBeat)),
                       !.nextNoteTime = @ + getNoteInterval(e),
                       !.currentBeat = JsMod(JsInc(@), getTotalNotesInCycle(e))],
             Append(notes, NewNote(e, e.nextNoteTime, e.currentBeat, afterStop)),
             afterStop)
    ELSE [engine |-> e, notes |-> notes]

\* One call of scheduler() by an interval timer, elapsed ticks of audio time after
\* the clock was last read. A suspended context's clock stands still.
schedulerPass(e, elapsed, afterStop) ==
    IF e.audioContext = "null" THEN [engine |-> e, notes |-> <<>>]
    ELSE schedulerLoop(
             [e EXCEPT !.nextNoteTime =
                           IF e.audioContext = "running" THEN @ - elapsed ELSE @],
             <<>>, afterStop)

scheduler(e, elapsed) == schedulerPass(e, elapsed, FALSE).engine

\* The smallest handle setInterval has not in use.
FreeInterval(e) == CHOOSE i \in 1..MaxIntervals : i \notin e.intervals /\ \A j \in 1..(i - 1) : j \in e.intervals

\* startBody without "this.currentBeat = 0".
startBodyKeepingBeat(e) ==
    LET u == updateNotesInMeasure([e EXCEPT !.isPlaying = TRUE])
    IN  [u EXCEPT !.nextNoteTime = MsToTicks(startOffsetMs),
                  !.timerID = FreeInterval(e),
                  !.intervals = @ \cup {FreeInterval(e)}]

\* start() from "this.isPlaying = true" on.
startBody(e) ==
    LET u == updateNotesInMeasure([e EXCEPT !.isPlaying = TRUE, !.currentBeat = 0])
    IN  [u EXCEPT !.nextNoteTime = MsToTicks(startOffsetMs),
                  !.timerID = FreeInterval(e),
                  !.intervals = @ \cup {FreeInterval(e)}]

\* start() without its first line "if (this.isPlaying) return".
startUnguarded(e, ctxState) ==
    LET e1 == initAudioContext(e, ctxState)
    IN  IF e1.audioContext = "null" THEN e1
        ELSE IF e1.audioContext = "suspended"
             THEN [e1 EXCEPT !.pendingStarts = @ + 1]
             ELSE startBody(e1)

\* start() up to its first suspension: ctxState is the state of a context that
\* initAudioContext creates.
start(e, ctxState) ==
    IF e.isPlaying THEN e
    ELSE LET e1 == initAudioContext(e, ctxState)
         IN  IF e1.audioContext = "null" THEN e1
             ELSE IF e1.audioContext = "suspended"
                  THEN [e1 EXCEPT !.pendingStarts = @ + 1]
                  ELSE startBody(e1)

\* A start() call suspended at "await this.audioContext.resume()" goes on.
resumeResolved(e) ==
    startBody([e EXCEPT !.audioContext = "running", !.pendingStarts = @ - 1])

\* resume() rejects: the start() call ends there, its promise rejected.
resumeRejected(e) ==
    IF e.doomedStarts > 0 THEN [e EXCEPT !.doomedStarts = @ - 1]
    ELSE [e EXCEPT !.pendingStarts = @ - 1]

stop(e) ==
    IF ~e.isPlaying THEN e
    ELSE [e EXCEPT !.isPlaying = FALSE,
                   !.intervals = IF e.timerID # 0 THEN @ \ {e.timerID} ELSE @,
                   !.timerID = 0,
                   !.currentBeat = 0]

\* Closing the context rejects the resume() promises still pending on it.
dispose(e) ==
    LET s == stop(e)
    IN  IF s.audioContext # "null"
        THEN [s EXCEPT !.audioContext = "null",
                       !.doomedStarts = @ + s.pendingStarts,
                       !.pendingStarts = 0]
        ELSE s

\* The setTimeout callback of scheduleNote: whether it calls the callbacks.
timerDelivers(e) == e.callbacks /\ e.isPlaying

\* What the oldest pending timer delivers when it fires: onBeat(beatIndex), and
\* onMeasureComplete() after it when complete (NaN === totalNotes - 1 is false).
timerDelivery(e) ==
    LET t == Head(e.timers)
    IN  [beatIndex |-> t.beatIndex,
         complete |-> (t.beatIndex # NaN /\ t.beatIndex = t.totalNotes - 1),
         totalNotes |-> t.totalNotes, totalNow |-> getTotalNotesInCycle(e)]

\* The time since the clock was last read, when an interval timer calls scheduler():
\* the polling periods until the next note enters the horizon (the passes before
\* that one schedule nothing and are left out), or a late pass.
ElapsedInputs(e) ==
    LET period == MsToTicks(lookaheadInterval)
        wait == e.nextNoteTime - MsToTicks(scheduleAheadTimeMs) + 1
    IN  {LatePolls * period}
        \cup (IF wait > period THEN {((wait + period - 1) \div period) * period} ELSE {period})

\* ------------------------------------------------------------------ data/patterns.ts
VARIANTS_PER_PATTERN == 3

\* Math.pow(2, length)
getBasePatternCount(length) == Pow2(length)

\* getTotalPatterns without the variants.
getTotalPatternsBase(length) == getBasePatternCount(length)

getTotalPatterns(length) == getBasePatternCount(length) * VARIANTS_PER_PATTERN

\* normalizePatternIndex with a single remainder.
normalizePatternIndexOnce(index, length) == JsRem(index, getTotalPatterns(length))

\* ((index % total) + total) % total
normalizePatternIndex(index, length) ==
    LET total == getTotalPatterns(length)
    IN  JsRem(JsRem(index, total) + total, total)

\* Math.floor(combinedIndex / 3) and combinedIndex % 3
decomposePatternIndex(combinedIndex) ==
    [baseIndex |-> combinedIndex \div VARIANTS_PER_PATTERN,
     variantIndex |-> JsRem(combinedIndex, VARIANTS_PER_PATTERN)]

\* The values Math.floor(Math.random() * total) is drawn from here: the first
\* NumRandomLow indices and the last one.
getRandomPatternIndex(length) ==
    LET total == getTotalPatterns(length)
    IN  (0..(Min(NumRandomLow, total) - 1)) \cup {total - 1}

\* A pattern id is a JavaScript number of up to 36 bits, kept as the pair of its
\* bits above 15 and its bits 15..0: the number is hi * Radix + lo.
Radix == 65536
ToWide(n) == [hi |-> n \div Radix, lo |-> n % Radix]

\* Math.pow(2, n), 0 <= n <= 36.
WidePow2(n) == IF n < 16 THEN [hi |-> 0, lo |-> Pow2(n)] ELSE [hi |-> Pow2(n - 16), lo |-> 0]

\* a - b for a >= b.
WideSub(a, b) ==
    IF a.lo >= b.lo THEN [hi |-> a.hi - b.hi, lo |-> a.lo - b.lo]
    ELSE [hi |-> a.hi - b.hi - 1, lo |-> a.lo - b.lo + Radix]

\* 0 <= index < 2^length, the indices getPatternAtIndex is documented for.
InRange(index, length) ==
    /\ index.lo \in 0..(Radix - 1)
    /\ index.hi >= 0
    /\ IF length < 16 THEN index.hi = 0 /\ index.lo < Pow2(length)
       ELSE index.hi < Pow2(length - 16)

\* (index >> bitPosition) & 1: the left operand is converted to a 32-bit integer,
\* which keeps its bits 31..0, and the shift count is taken modulo 32.
ShiftRightAnd1(index, bitPosition) ==
    LET count == bitPosition % 32
    IN  IF count < 16 THEN (index.lo \div Pow2(count)) % 2
        ELSE (index.hi \div Pow2(count - 16)) % 2

\* getPatternAtIndex reading the bits from the least significant one.
getPatternAtIndexLsbFirst(index, length) ==
    [id |-> index,
     sticking |-> [i \in 1..length |->
                      IF ShiftRightAnd1(index, i - 1) = 0 THEN "R" ELSE "L"]]

\* sticking[i + 1] is the loop's sticking[i], pushed with bitPosition = length - 1 - i.
getPatternAtIndex(index, length) ==
    [id |-> index,
     sticking |-> [i \in 1..length |->
                      IF ShiftRightAnd1(index, length - i) = 0 THEN "R" ELSE "L"]]

\* reversePattern mapping every hand to 'R'.
reversePatternAllRight(pattern) ==
    LET length == Len(pattern.sticking)
    IN  [id |-> WideSub(WideSub(WidePow2(length), ToWide(1)), pattern.id),
         sticking |-> [i \in 1..length |-> "R"]]

\* reversePattern with totalPatterns - pattern.id for the id.
reversePatternOffByOne(pattern) ==
    LET length == Len(pattern.sticking)
    IN  [id |-> WideSub(WidePow2(length), pattern.id),
         sticking |-> [i \in 1..length |->
                          IF pattern.sticking[i] = "L" THEN "R" ELSE "L"]]

\* reversePattern returning pattern.id for the id.
reversePatternKeepingId(pattern) ==
    [id |-> pattern.id,
     sticking |-> [i \in 1..Len(pattern.sticking) |->
                      IF pattern.sticking[i] = "L" THEN "R" ELSE "L"]]

reversePattern(pattern) ==
    LET length == Len(pattern.sticking)
        totalPatterns == WidePow2(length)
        reversedId == WideSub(WideSub(totalPatterns, ToWide(1)), pattern.id)
    IN  [id |-> reversedId,
         sticking |-> [i \in 1..length |->
                          IF pattern.sticking[i] = "L" THEN "R" ELSE "L"]]

\* a + b.
WideAdd(a, b) ==
    [hi |-> a.hi + b.hi + ((a.lo + b.lo) \div Radix), lo |-> (a.lo + b.lo) % Radix]

composePatternIndexSwapped(baseIndex, variantIndex) ==
    variantIndex * VARIANTS_PER_PATTERN + baseIndex

composePatternIndex(baseIndex, variantIndex) ==
    baseIndex * VARIANTS_PER_PATTERN + variantIndex

\* variants[variantIndex % VARIANTS_PER_PATTERN]; an index outside the array
\* gives undefined.
getVariantFromIndex(variantIndex) ==
    LET variants == <<"pattern-pattern", "reversal-reversal", "pattern-reversal">>
        i == JsRem(variantIndex, VARIANTS_PER_PATTERN)
    IN  IF i >= 0 THEN variants[i + 1] ELSE "undefined"

\* createTwoMeasurePattern, whatever the variant.
createTwoMeasurePatternAlways(pattern, variant) ==
    [measure1 |-> pattern, measure2 |-> reversePattern(pattern)]

\* The switch has no default: any other variant returns undefined.
createTwoMeasurePatternVariant(pattern, variant) ==
    LET reversed == reversePattern(pattern)
    IN  CASE variant = "pattern-pattern" -> [measure1 |-> pattern, measure2 |-> pattern]
          [] variant = "reversal-reversal" -> [measure1 |-> reversed, measure2 |-> reversed]
          [] variant = "pattern-reversal" -> [measure1 |-> pattern, measure2 |-> reversed]
          [] OTHER -> [undefined |-> TRUE]

\* The rudiments8 table, in the order of the source.
rudiments8 ==
    <<
       [sticking |-> <<"R", "L", "R", "L", "R", "L", "R", "L">>,
        name |-> "Single Stroke Roll"],
       [sticking |-> <<"L", "R", "L", "R", "L", "R", "L", "R">>,
        name |-> "Single Stroke Roll (L)"],
       [sticking |-> <<"R", "R", "L", "L", "R", "R", "L", "L">>,
        name |-> "Double Stroke Roll"],
       [sticking |-> <<"L", "L", "R", "R", "L", "L", "R", "R">>,
        name |-> "Double Stroke Roll (L)"],
       [sticking |-> <<"R", "L", "R", "R", "L", "R", "L", "L">>,
        name |-> "Single Paradiddle"],
       [sticking |-> <<"L", "R", "L", "L", "R", "L", "R", "R">>,
        name |-> "Single Paradiddle (L)"],
       [sticking |-> <<"R", "L", "L", "R", "L", "L", "R", "L">>,
        name |-> "Inverted Paradiddle"],
       [sticking |-> <<"L", "R", "R", "L", "R", "R", "R", "L">>,
        name |-> "Inverted Paradiddle (L)"],
       [sticking |-> <<"R", "R", "L", "R", "L", "L", "R", "L">>,
        name |-> "Double Paradiddle"],
       [sticking |-> <<"L", "L", "R", "L", "R", "R", "R", "L">>,
        name |-> "Double Paradiddle (L)"],
       [sticking |-> <<"R", "R", "R", "L", "R", "R", "R", "L">>,
        name |-> "Flam Accent (R)"],
       [sticking |-> <<"L", "L", "L", "R", "L", "L", "L", "R">>,
        name |-> "Flam Accent (L)"]
    >>

\* stickingStr.slice(0, n).repeat(length / n) === stickingStr, for n dividing length.
repeatsUnit(sticking, n) ==
    \A k \in 1..Len(sticking) : sticking[k] = sticking[((k - 1) % n) + 1]

\* The template literals of getPatternDisplayName: a name is the table's text,
\* or the unit followed by " Pattern", or "Pattern #" followed by id + 1.
unitName(sticking, n) ==
    [kind |-> "unit", unit |-> SubSeq(sticking, 1, n), text |-> " Pattern"]

numberName(pattern) ==
    [kind |-> "number", text |-> "Pattern #", number |-> WideAdd(pattern.id, ToWide(1))]

\* getPatternDisplayName without the rudiment table.
getPatternDisplayNameNoTable(pattern) ==
    LET sticking == pattern.sticking
        length == Len(sticking)
    IN  IF length >= 4 /\ length % 2 = 0 /\ repeatsUnit(sticking, 2)
        THEN unitName(sticking, 2)
        ELSE IF length >= 8 /\ length % 4 = 0 /\ repeatsUnit(sticking, 4)
             THEN unitName(sticking, 4)
             ELSE numberName(pattern)

getPatternDisplayName(pattern) ==
    LET sticking == pattern.sticking
        length == Len(sticking)
        known == {i \in DOMAIN rudiments8 : rudiments8[i].sticking = sticking}
    IN  IF known # {}
        THEN [kind |-> "rudiment", text |-> rudiments8[CHOOSE i \in known : TRUE].name]
        ELSE IF length >= 4 /\ length % 2 = 0 /\ repeatsUnit(sticking, 2)
             THEN unitName(sticking, 2)
             ELSE IF length >= 8 /\ length % 4 = 0 /\ repeatsUnit(sticking, 4)
                  THEN unitName(sticking, 4)
                  ELSE numberName(pattern)

\* ((baseIndex % count) + count) % count with count = getBasePatternCount(length),
\* as getVariantDisplayName and the pattern memos of useMetronome compute it.
normalizedBase(baseIndex, length) ==
    LET count == getBasePatternCount(length)
    IN  JsRem(JsRem(baseIndex, count) + count, count)

\* `${baseName} ${variantLabels[variantIndex]}`, the multiplication sign of the
\* labels written x.
getVariantDisplayName(combinedIndex, length) ==
    LET d == decomposePatternIndex(combinedIndex)
        pattern == getPatternAtIndex(ToWide(normalizedBase(d.baseIndex, length)), length)
        variantLabels == <<"(x2)", "(Rev x2)", "(+ Rev)">>
    IN  [baseName |-> getPatternDisplayName(pattern),
         label |-> IF d.variantIndex \in 0..2 THEN variantLabels[d.variantIndex + 1]
                   ELSE "undefined"]

\* Math.random() is random / RandomDenominator, 0 <= random < RandomDenominator:
\* the denominator is above every getTotalPatterns(length) used, as 2^53 is above
\* 3 * 2^36.
RandomDenominator == 4 * Pow2(MaxIndexLength)

\* Math.round in place of Math.floor.
getRandomPatternIndexRounded(random, length) ==
    (2 * random * getTotalPatterns(length) + RandomDenominator) \div (2 * RandomDenominator)

\* Math.floor(Math.random() * getTotalPatterns(length)) for that Math.random().
getRandomPatternIndexAt(random, length) ==
    (random * getTotalPatterns(length)) \div RandomDenominator

\* No pattern function has been called.
NoCalc == [length |-> 0, index |-> ToWide(0), patterns |-> <<>>, given |-> FALSE]

\* ------------------------------------------------------------------ hooks/useMetronome.ts
\* Not mounted: the controller's variables in the engine specifications.
NoController == [mounted |-> FALSE]

\* The useState initial values.
InitialState ==
    [isPlaying |-> FALSE, noteValue |-> "eighth", timeSignature |-> "4/4",
     repeatCount |-> 4, currentRepeat |-> 1,
     patternMode |-> "sequential", currentPatternIndex |-> 0, nextPatternIndex |-> 1]

\* The useState initial values with the displayed beat index, which InitialState
\* leaves out.
DisplayState == InitialState @@ [currentBeatIndex |-> 0]

\* setCurrentBeatIndex, where the state keeps the displayed beat index.
setCurrentBeatIndex(s, beatIndex) ==
    IF "currentBeatIndex" \in DOMAIN s THEN [s EXCEPT !.currentBeatIndex = beatIndex] ELSE s

\* The useRef initial values.
InitialRefs == [nextPatternRef |-> 1, currentRepeatRef |-> 1, lastProcessedCurrentRef |-> -1]

\* useMemo: notesInMeasure of a rendered state.
notesInMeasure(s) == getNotesPerMeasureForTimeSignature(s.noteValue, s.timeSignature)

\* What the callbacks installed by the "Set up callbacks" effect closed over.
Closure(s) ==
    [repeatCount |-> s.repeatCount, patternMode |-> s.patternMode,
     notesInMeasure |-> notesInMeasure(s)]

getCompatibleNoteValues(timeSignature) ==
    IF TIME_SIGNATURE_CONFIGS[timeSignature].isCompound
    THEN {"quarter", "eighth", "sixteenth", "eighth-triplet", "sixteenth-triplet"}
    ELSE {"whole", "half", "quarter", "eighth", "sixteenth", "eighth-triplet",
          "sixteenth-triplet"}

\* currentTwoMeasure / nextTwoMeasure: the base index handed to getPatternAtIndex.
patternBaseIndex(patternIndex, length) ==
    LET normalizedIndex == normalizePatternIndex(patternIndex, length)
        baseIndex == decomposePatternIndex(normalizedIndex).baseIndex
        count == getBasePatternCount(length)
    IN  JsRem(JsRem(baseIndex, count) + count, count)

\* The engine after the "Initialize engine" effect: bpm 80, eighth notes, 4/4,
\* two-measure mode (volume and click mode are left out of the model).
MountedEngine(ctxState) ==
    setCallbacks(
        setTwoMeasureMode(
            setTimeSignature(
                setNoteValue(setBpm(initAudioContext(NewEngine(TRUE), ctxState), 80),
                             "eighth"),
                "4/4"),
            TRUE))

\* onMeasureComplete: the refs and the queued state after the handler ran with
\* newNext as the next pattern it computed; r is [refs, nx].
onMeasureComplete(r, closure, newNext) ==
    LET currentRepeatValue == r.refs.currentRepeatRef
        oldNext == r.refs.nextPatternRef
    IN  IF currentRepeatValue >= closure.repeatCount
        THEN IF r.refs.lastProcessedCurrentRef = oldNext
             THEN r
             ELSE [refs |-> [r.refs EXCEPT !.lastProcessedCurrentRef = oldNext,
                                           !.nextPatternRef = newNext],
                   nx |-> [r.nx EXCEPT !.currentPatternIndex = oldNext,
                                       !.nextPatternIndex = newNext,
                                       !.currentRepeat = 1]]
        ELSE [r EXCEPT !.nx.currentRepeat = currentRepeatValue + 1]

\* The next pattern onMeasureComplete may compute.
newNextChoices(r, closure) ==
    IF closure.patternMode = "random"
    THEN getRandomPatternIndex(closure.notesInMeasure)
    ELSE {normalizePatternIndex(r.refs.nextPatternRef + 1, closure.notesInMeasure)}

\* Whether that call of onMeasureComplete is a transition to the next pattern.
isTransition(r, closure) ==
    /\ r.refs.currentRepeatRef >= closure.repeatCount
    /\ r.refs.lastProcessedCurrentRef # r.refs.nextPatternRef

setRepeatCount(s, count) == [s EXCEPT !.repeatCount = Max(1, Min(32, count))]

\* jumpToPattern with the notesInMeasure its closure holds; r is [refs, nx].
jumpToPattern(r, index, length) ==
    LET normalized == normalizePatternIndex(index, length)
        nextNormalized == normalizePatternIndex(normalized + 1, length)
    IN  [refs |-> [r.refs EXCEPT !.nextPatternRef = nextNormalized,
                                 !.lastProcessedCurrentRef = -1],
         nx |-> [r.nx EXCEPT !.currentPatternIndex = normalized,
                             !.nextPatternIndex = nextNormalized,
                             !.currentRepeat = 1]]

\* resetPatterns without "lastProcessedCurrentRef.current = -1".
resetPatternsKeepingGuard(r) ==
    [refs |-> [r.refs EXCEPT !.nextPatternRef = 1],
     nx |-> [r.nx EXCEPT !.currentPatternIndex = 0, !.nextPatternIndex = 1,
                         !.currentRepeat = 1]]

\* The pattern state that reset() and the notesInMeasure effect set; r is [refs, nx].
resetPatterns(r) ==
    [refs |-> [r.refs EXCEPT !.nextPatternRef = 1, !.lastProcessedCurrentRef = -1],
     nx |-> [r.nx EXCEPT !.currentPatternIndex = 0, !.nextPatternIndex = 1,
                         !.currentRepeat = 1]]

\* A render of the queued state s over the rendered state old, and the effects it
\* runs: the ref sync in the render body, the engine sync effects, and the reset
\* effect when notesInMeasure changed. r is [refs, nx, engine].
render(r, old) ==
    LET s == r.nx
        synced == [r.refs EXCEPT !.currentRepeatRef = s.currentRepeat]
        e1 == IF s.noteValue # old.noteValue THEN setNoteValue(r.engine, s.noteValue)
              ELSE r.engine
        e2 == IF s.timeSignature # old.timeSignature
              THEN setTimeSignature(e1, s.timeSignature) ELSE e1
        p == IF notesInMeasure(s) # notesInMeasure(old)
             THEN resetPatterns([refs |-> synced, nx |-> s])
             ELSE [refs |-> synced, nx |-> s]
    IN  [refs |-> p.refs, nx |-> p.nx, engine |-> e2]

\* ------------------------------------------------------------------ engine specification
\* new MetronomeEngine(): with a window, the constructor creates the audio context,
\* suspended until the page may play audio, or running.
Init ==
    /\ \E hasWindow \in BOOLEAN, ctxState \in {"suspended", "running"} :
           engine = initAudioContext(NewEngine(hasWindow), ctxState)
    /\ stopSinceStart = FALSE
    /\ disposed = FALSE
    /\ stale = <<>>
    /\ lastOp = [op |-> "new", wasPlaying |-> FALSE]
    /\ lastFire = <<>>
    /\ beatLog = <<>>
    /\ lastPass = <<>>
    /\ st = NoController /\ nx = NoController /\ refs = NoController
    /\ cb = NoController /\ awaiting = 0 /\ ctlHist = NoController
    /\ calc = NoCalc

\* The history of a step that is the engine call name.
Call(name) ==
    /\ lastOp' = [op |-> name, wasPlaying |-> engine.isPlaying]
    /\ lastFire' = <<>>
    /\ lastPass' = <<>>

\* The history of a step that is a setter call or a browser event.
Other ==
    /\ lastOp' = [op |-> "other", wasPlaying |-> FALSE]
    /\ lastFire' = <<>>
    /\ lastPass' = <<>>

SetCallbacks ==
    /\ engine' = setCallbacks(engine)
    /\ Other
    /\ UNCHANGED <<stopSinceStart, disposed, stale, beatLog, ctlVars>>

SetNoteValue ==
    /\ \E noteValue \in NoteValueInputs : engine' = setNoteValue(engine, noteValue)
    /\ Other
    /\ UNCHANGED <<stopSinceStart, disposed, stale, beatLog, ctlVars>>

SetTimeSignature ==
    /\ \E timeSignature \in TimeSignatureInputs :
           engine' = setTimeSignature(engine, timeSignature)
    /\ Other
    /\ UNCHANGED <<stopSinceStart, disposed, stale, beatLog, ctlVars>>

SetTwoMeasureMode ==
    /\ \E enabled \in BOOLEAN : engine' = setTwoMeasureMode(engine, enabled)
    /\ Other
    /\ UNCHANGED <<stopSinceStart, disposed, stale, beatLog, ctlVars>>

\* A start() call, up to its return or its suspension at await resume().
StartCall ==
    /\ \E ctxState \in {"suspended", "running"} : engine' = start(engine, ctxState)
    /\ engine'.pendingStarts + engine'.doomedStarts <= MaxPending
    /\ engine.isPlaying \/ Cardinality(engine.intervals) < MaxIntervals
    /\ stopSinceStart' = FALSE
    /\ beatLog' = IF engine'.isPlaying /\ ~engine.isPlaying THEN <<>> ELSE beatLog
    /\ Call("start")
    /\ UNCHANGED <<disposed, stale, ctlVars>>

\* resume() resolves and a suspended start() call runs to its end.
ResumeResolved ==
    /\ engine.pendingStarts > 0
    /\ engine.audioContext # "null"
    /\ Cardinality(engine.intervals) < MaxIntervals
    /\ engine' = resumeResolved(engine)
    /\ beatLog' = <<>>
    /\ Call("resumed")
    /\ UNCHANGED <<stopSinceStart, disposed, stale, ctlVars>>

\* resume() rejects (the context was closed, or the page may not play audio): the
\* start() call raises to its caller.
ResumeRejected ==
    /\ \/ engine.doomedStarts > 0
       \/ engine.pendingStarts > 0 /\ engine.audioContext = "suspended"
    /\ engine' = resumeRejected(engine)
    /\ Call("rejected")
    /\ UNCHANGED <<stopSinceStart, disposed, stale, beatLog, ctlVars>>

Stop ==
    /\ engine' = stop(engine)
    /\ stopSinceStart' = TRUE
    /\ stale' = [i \in DOMAIN stale |-> TRUE]
    /\ Call("stop")
    /\ UNCHANGED <<disposed, beatLog, ctlVars>>

Dispose ==
    /\ engine' = dispose(engine)
    /\ stopSinceStart' = TRUE
    /\ disposed' = TRUE
    /\ stale' = [i \in DOMAIN stale |-> TRUE]
    /\ Call("dispose")
    /\ UNCHANGED <<beatLog, ctlVars>>

\* A live interval timer calls scheduler().
SchedulerPass ==
    /\ \E id \in engine.intervals, elapsed \in ElapsedInputs(engine) :
           LET pass == schedulerPass(engine, elapsed, stopSinceStart)
           IN  /\ Len(pass.engine.timers) <= MaxTimers
               /\ engine' = pass.engine
               /\ lastPass' = pass.notes
               /\ stale' = stale \o [i \in 1..Len(pass.notes) |-> FALSE]
    /\ lastOp' = [op |-> "scheduler", wasPlaying |-> engine.isPlaying]
    /\ lastFire' = <<>>
    /\ UNCHANGED <<stopSinceStart, disposed, beatLog, ctlVars>>

\* The oldest pending visual timer fires; keepLog is whether beatLog is kept.
Fire(keepLog) ==
    /\ engine.timers # <<>>
    /\ engine' = [engine EXCEPT !.timers = Tail(@)]
    /\ stale' = Tail(stale)
    /\ lastFire' = IF timerDelivers(engine)
                   THEN <<timerDelivery(engine) @@ [stale |-> Head(stale), prev |-> beatLog]>>
                   ELSE <<>>
    /\ beatLog' = IF keepLog /\ engine.isPlaying
                  THEN <<Head(engine.timers).beatIndex>> ELSE beatLog
    /\ lastOp' = [op |-> "timer", wasPlaying |-> engine.isPlaying]
    /\ lastPass' = <<>>
    /\ UNCHANGED <<stopSinceStart, disposed, ctlVars>>

TimerFires == Fire(TRUE)

Next ==
    \/ SetCallbacks
    \/ StartCall
    \/ ResumeResolved
    \/ ResumeRejected
    \/ Stop
    \/ Dispose
    \/ SchedulerPass
    \/ TimerFires

\* The engine's life cycle, in the configuration the constructor leaves.
Spec == Init /\ [][Next]_vars

\* ------------------------------------------------------------------ configuration specification
\* An engine in a page that may play audio, with the controller's callbacks
\* installed: the setters are called while it is Stopped and while it is Running.
InitConfig ==
    /\ engine = setCallbacks(initAudioContext(NewEngine(TRUE), "running"))
    /\ stopSinceStart = FALSE
    /\ disposed = FALSE
    /\ stale = <<>>
    /\ lastOp = [op |-> "new", wasPlaying |-> FALSE]
    /\ lastFire = <<>>
    /\ beatLog = <<>>
    /\ lastPass = <<>>
    /\ st = NoController /\ nx = NoController /\ refs = NoController
    /\ cb = NoController /\ awaiting = 0 /\ ctlHist = NoController
    /\ calc = NoCalc

TimerFiresConfig == Fire(FALSE)

NextConfig ==
    \/ SetNoteValue
    \/ SetTimeSignature
    \/ SetTwoMeasureMode
    \/ StartCall
    \/ Stop
    \/ SchedulerPass
    \/ TimerFiresConfig

SpecConfig == InitConfig /\ [][NextConfig]_vars

\* ------------------------------------------------------------------ setters-while-running specification
\* A setter call that leaves the engine as e: the history names the setter, and
\* counts the setter calls of the behaviour up to MaxSetterCalls.
FrameSetter(name, e) ==
    /\ ctlHist.setterCalls < MaxSetterCalls
    /\ engine' = e
    /\ ctlHist' = [ctlHist EXCEPT !.setterCalls = @ + 1]
    /\ lastOp' = [op |-> name, wasPlaying |-> engine.isPlaying]
    /\ lastFire' = <<>>
    /\ lastPass' = <<>>
    /\ UNCHANGED <<stopSinceStart, disposed, stale, beatLog, st, nx, refs, cb, awaiting, calc>>

FrameSetBpm == \E bpm \in BpmInputs : FrameSetter("setBpm", setBpm(engine, bpm))

FrameSetNoteValue ==
    \E noteValue \in NoteValueInputs :
        FrameSetter("setNoteValue", setNoteValue(engine, noteValue))

FrameSetTimeSignature ==
    \E timeSignature \in TimeSignatureInputs :
        FrameSetter("setTimeSignature", setTimeSignature(engine, timeSignature))

FrameSetTwoMeasureMode ==
    \E enabled \in BOOLEAN :
        FrameSetter("setTwoMeasureMode", setTwoMeasureMode(engine, enabled))

FrameSetClickMode ==
    \E mode \in ClickModes : FrameSetter("setClickMode", setClickMode(engine, mode))

FrameSetVolume == \E vol \in VolumeInputs : FrameSetter("setVolume", setVolume(engine, vol))

FrameSetCallbacks == FrameSetter("setCallbacks", setCallbacks(engine))

\* A new engine in a page that may play audio, no callbacks installed yet.
InitFrame ==
    /\ engine = initAudioContext(NewEngine(TRUE), "running")
    /\ stopSinceStart = FALSE
    /\ disposed = FALSE
    /\ stale = <<>>
    /\ lastOp = [op |-> "new", wasPlaying |-> FALSE]
    /\ lastFire = <<>>
    /\ beatLog = <<>>
    /\ lastPass = <<>>
    /\ st = NoController /\ nx = NoController /\ refs = NoController
    /\ cb = NoController /\ awaiting = 0
    /\ ctlHist = [setterCalls |-> 0]
    /\ calc = NoCalc

\* start() on that engine: the context is running and start() runs to its end.
FrameStart ==
    /\ engine' = start(engine, "running")
    /\ Call("start")
    /\ UNCHANGED <<stopSinceStart, disposed, stale, beatLog, ctlVars>>

NextFrame ==
    \/ FrameSetBpm
    \/ FrameSetNoteValue
    \/ FrameSetTimeSignature
    \/ FrameSetTwoMeasureMode
    \/ FrameSetClickMode
    \/ FrameSetVolume
    \/ FrameSetCallbacks
    \/ FrameStart
    \/ SchedulerPass
    \/ TimerFiresConfig

\* Every configuration setter, called on a Stopped and on a Running engine.
SpecFrame == InitFrame /\ [][NextFrame]_vars

\* ------------------------------------------------------------------ notes specification
AllNoteValues == {NOTE_VALUES[i].value : i \in DOMAIN NOTE_VALUES}
AllTimeSignatures == {TIME_SIGNATURES[i] : i \in DOMAIN TIME_SIGNATURES}

\* An engine configured by its setters before it is started.
ConfiguredEngine(bpm, noteValue, timeSignature, enabled, mode) ==
    setClickMode(
        setTwoMeasureMode(
            setTimeSignature(
                setNoteValue(
                    setBpm(setCallbacks(initAudioContext(NewEngine(TRUE), "running")), bpm),
                    noteValue),
                timeSignature),
            enabled),
        mode)

\* Every subdivision, time signature, cycle span and click mode, at the tempi
\* the setBpm arguments give.
InitNotes ==
    /\ \E bpm \in BpmInputs, noteValue \in AllNoteValues,
          timeSignature \in AllTimeSignatures, enabled \in BOOLEAN, mode \in ClickModes :
           engine = ConfiguredEngine(bpm, noteValue, timeSignature, enabled, mode)
    /\ stopSinceStart = FALSE
    /\ disposed = FALSE
    /\ stale = <<>>
    /\ lastOp = [op |-> "new", wasPlaying |-> FALSE]
    /\ lastFire = <<>>
    /\ beatLog = <<>>
    /\ lastPass = <<>>
    /\ st = NoController /\ nx = NoController /\ refs = NoController
    /\ cb = NoController /\ awaiting = 0 /\ ctlHist = NoController
    /\ calc = NoCalc

NextNotes ==
    \/ StartCall
    \/ SchedulerPass
    \/ TimerFires

\* One run of the engine in each configuration: the notes it schedules and the
\* callbacks it delivers.
SpecNotes == InitNotes /\ [][NextNotes]_vars

\* Every subdivision, time signature and cycle span, at the constructor's tempo
\* and click mode.
InitCycles ==
    /\ \E noteValue \in AllNoteValues, timeSignature \in AllTimeSignatures,
          enabled \in BOOLEAN :
           engine = ConfiguredEngine(120, noteValue, timeSignature, enabled, "every-note")
    /\ stopSinceStart = FALSE
    /\ disposed = FALSE
    /\ stale = <<>>
    /\ lastOp = [op |-> "new", wasPlaying |-> FALSE]
    /\ lastFire = <<>>
    /\ beatLog = <<>>
    /\ lastPass = <<>>
    /\ st = NoController /\ nx = NoController /\ refs = NoController
    /\ cb = NoController /\ awaiting = 0 /\ ctlHist = NoController
    /\ calc = NoCalc

\* A live interval timer calls scheduler() on time, one polling period after the
\* clock was last read.
PollingPass ==
    /\ \E id \in engine.intervals :
           LET pass == schedulerPass(engine, MsToTicks(lookaheadInterval), stopSinceStart)
           IN  /\ Len(pass.engine.timers) <= MaxTimers
               /\ engine' = pass.engine
               /\ lastPass' = pass.notes
               /\ stale' = stale \o [i \in 1..Len(pass.notes) |-> FALSE]
    /\ lastOp' = [op |-> "scheduler", wasPlaying |-> engine.isPlaying]
    /\ lastFire' = <<>>
    /\ UNCHANGED <<stopSinceStart, disposed, beatLog, ctlVars>>

NextCycles ==
    \/ StartCall
    \/ PollingPass
    \/ TimerFires

\* One run in each of these configurations with fair timers: the interval timer
\* goes on calling scheduler(), and a pending visual timer fires.
SpecCycles ==
    /\ InitCycles
    /\ [][NextCycles]_vars
    /\ WF_vars(PollingPass)
    /\ WF_vars(TimerFires)

\* ------------------------------------------------------------------ polling specification
\* A live interval timer calls scheduler(), on time or late: a late pass finds
\* several notes inside the horizon.
LongSchedulerPass ==
    /\ \E id \in engine.intervals, elapsed \in ElapsedInputs(engine) :
           LET pass == schedulerPass(engine, elapsed, stopSinceStart)
           IN  /\ Len(pass.engine.timers) <= MaxPassTimers
               /\ engine' = pass.engine
               /\ lastPass' = pass.notes
               /\ stale' = stale \o [i \in 1..Len(pass.notes) |-> FALSE]
               /\ lastOp' = [op |-> "scheduler", wasPlaying |-> engine.isPlaying,
                             elapsed |-> elapsed]
    /\ lastFire' = <<>>
    /\ UNCHANGED <<stopSinceStart, disposed, beatLog, ctlVars>>

NextPass ==
    \/ StartCall
    \/ LongSchedulerPass
    \/ TimerFiresConfig

\* The polling passes of one run, in each configuration.
SpecPass == InitNotes /\ [][NextPass]_vars

\* ------------------------------------------------------------------ controller specification
\* The history at a point where the current pattern has just been set.
FreshHist ==
    [unrendered |-> 0, advances |-> 0, steps |-> 0, cycles |-> 0, rConst |-> TRUE,
     last |-> <<>>]

\* useMetronome() after its first render and effects, in a browser.
InitCtl ==
    /\ \E ctxState \in {"suspended", "running"} : engine = MountedEngine(ctxState)
    /\ stopSinceStart = FALSE
    /\ disposed = FALSE
    /\ stale = <<>>
    /\ lastOp = [op |-> "new", wasPlaying |-> FALSE]
    /\ lastFire = <<>>
    /\ beatLog = <<>>
    /\ lastPass = <<>>
    /\ st = InitialState
    /\ nx = InitialState
    /\ refs = InitialRefs
    /\ cb = Closure(InitialState)
    /\ awaiting = 0
    /\ ctlHist = FreshHist
    /\ calc = NoCalc

engineHist == <<stopSinceStart, disposed, stale, lastOp, lastFire, beatLog, lastPass, calc>>

\* A timer callback runs, maybe before React has rendered the updates queued so far.
Queued(h) ==
    /\ ctlHist.unrendered < MaxUnrendered
    /\ ctlHist' = [h EXCEPT !.unrendered = IF nx' = st THEN 0 ELSE @ + 1,
                            !.advances = IF nx' = st THEN 0 ELSE @,
                            !.last = <<>>]

\* An event handler of the user interface runs, on what the last render showed.
Handled(h) ==
    /\ nx = st
    /\ ctlHist' = [h EXCEPT !.unrendered = IF nx' = st THEN 0 ELSE 1,
                            !.advances = 0,
                            !.last = <<>>]

\* React renders the queued state and runs the effects of that render.
Render ==
    /\ nx # st
    /\ LET r == render([refs |-> refs, nx |-> nx, engine |-> engine], st)
       IN  /\ st' = nx
           /\ nx' = r.nx
           /\ refs' = r.refs
           /\ engine' = r.engine
           /\ cb' = Closure(nx)
           /\ ctlHist' = IF notesInMeasure(nx) # notesInMeasure(st)
                         THEN FreshHist
                         ELSE [ctlHist EXCEPT !.unrendered = 0, !.advances = 0,
                                              !.last = <<>>]
    /\ UNCHANGED <<awaiting, engineHist>>

\* togglePlay, up to its return or its suspension at await engine.start().
TogglePlay ==
    /\ IF st.isPlaying
       THEN /\ engine' = stop(engine)
            /\ nx' = [nx EXCEPT !.isPlaying = FALSE]
            /\ awaiting' = awaiting
       ELSE /\ \E ctxState \in {"suspended", "running"} : engine' = start(engine, ctxState)
            /\ engine'.pendingStarts <= MaxPending
            /\ IF engine'.pendingStarts > engine.pendingStarts
               THEN nx' = nx /\ awaiting' = awaiting + 1
               ELSE nx' = [nx EXCEPT !.isPlaying = TRUE] /\ awaiting' = awaiting
    /\ Handled(ctlHist)
    /\ UNCHANGED <<st, refs, cb, engineHist>>

\* resume() resolves: engine.start() runs to its end and togglePlay goes on.
TogglePlayResumed ==
    /\ awaiting > 0
    /\ engine.pendingStarts > 0
    /\ Cardinality(engine.intervals) < MaxIntervals
    /\ engine' = resumeResolved(engine)
    /\ awaiting' = awaiting - 1
    /\ nx' = [nx EXCEPT !.isPlaying = TRUE]
    /\ Queued(ctlHist)
    /\ UNCHANGED <<st, refs, cb, engineHist>>

\* resume() rejects: engine.start() and togglePlay end there.
TogglePlayRejected ==
    /\ awaiting > 0
    /\ engine.pendingStarts > 0
    /\ engine.audioContext = "suspended"
    /\ engine' = resumeRejected(engine)
    /\ awaiting' = awaiting - 1
    /\ ctlHist' = [ctlHist EXCEPT !.last = <<>>]
    /\ UNCHANGED <<st, nx, refs, cb, engineHist>>

\* stop (the Stop button, Escape).
StopPlayback ==
    /\ engine' = stop(engine)
    /\ nx' = setCurrentBeatIndex([nx EXCEPT !.isPlaying = FALSE], 0)
    /\ Handled(ctlHist)
    /\ UNCHANGED <<st, refs, cb, awaiting, engineHist>>

\* reset (the Reset button, R).
Reset ==
    /\ engine' = stop(engine)
    /\ LET r == resetPatterns([refs |-> refs, nx |-> nx])
       IN  /\ refs' = r.refs
           /\ nx' = setCurrentBeatIndex([r.nx EXCEPT !.isPlaying = FALSE], 0)
    /\ Handled(FreshHist)
    /\ UNCHANGED <<st, cb, awaiting, engineHist>>

\* The controller's setNoteValue, with a value the selector offers.
CtlSetNoteValue ==
    /\ \E newNoteValue \in (NoteValueInputs \cup {"eighth"})
                               \cap getCompatibleNoteValues(st.timeSignature) :
           nx' = setCurrentBeatIndex([nx EXCEPT !.noteValue = newNoteValue], 0)
    /\ Handled(ctlHist)
    /\ UNCHANGED <<engine, st, refs, cb, awaiting, engineHist>>

CtlSetTimeSignature ==
    /\ \E newTimeSignature \in TimeSignatureInputs :
           nx' = setCurrentBeatIndex([nx EXCEPT !.timeSignature = newTimeSignature], 0)
    /\ Handled(ctlHist)
    /\ UNCHANGED <<engine, st, refs, cb, awaiting, engineHist>>

SetRepeatCount ==
    /\ \E count \in RepeatCountInputs :
           /\ nx' = setRepeatCount(nx, count)
           /\ Handled([ctlHist EXCEPT !.rConst = @ /\ nx'.repeatCount = nx.repeatCount])
    /\ UNCHANGED <<engine, st, refs, cb, awaiting, engineHist>>

\* setPatternMode: 'random' re-rolls the next pattern with the notesInMeasure of
\* the render the handler was created in.
SetPatternMode ==
    /\ \E mode \in {"sequential", "random"} :
           IF mode = "random"
           THEN \E newNext \in getRandomPatternIndex(notesInMeasure(st)) :
                    /\ refs' = [refs EXCEPT !.nextPatternRef = newNext]
                    /\ nx' = [nx EXCEPT !.patternMode = mode, !.nextPatternIndex = newNext]
                    /\ Handled([ctlHist EXCEPT !.steps = 0])
           ELSE /\ refs' = refs
                /\ nx' = [nx EXCEPT !.patternMode = mode]
                /\ Handled(ctlHist)
    /\ UNCHANGED <<engine, st, cb, awaiting, engineHist>>

JumpToPattern ==
    /\ \E index \in JumpInputs(notesInMeasure(st)) :
           LET r == jumpToPattern([refs |-> refs, nx |-> nx], index, notesInMeasure(st))
           IN  refs' = r.refs /\ nx' = r.nx
    /\ Handled(FreshHist)
    /\ UNCHANGED <<engine, st, cb, awaiting, engineHist>>

\* The visual timer of the cycle's last note fires: onBeat sets the displayed beat
\* index where the state keeps it (the timers of the cycle's other notes are left
\* out), then onMeasureComplete runs as the installed closure computes it.
LastBeatTimerFires ==
    /\ timerDelivers(engine)
    /\ getTotalNotesInCycle(engine) > 0
    /\ LET r0 == [refs |-> refs,
                  nx |-> setCurrentBeatIndex(nx, getTotalNotesInCycle(engine) - 1)]
           advance == isTransition(r0, cb)
           counted == Min(ctlHist.cycles + 1, MaxCycles)
       IN  /\ advance /\ cb.patternMode = "sequential" => ctlHist.steps < MaxTransitions
           /\ \E newNext \in newNextChoices(r0, cb) :
                  LET r == onMeasureComplete(r0, cb, newNext)
                  IN  /\ refs' = r.refs
                      /\ nx' = r.nx
           /\ ctlHist.unrendered < MaxUnrendered
           /\ ctlHist' =
                  IF advance
                  THEN [unrendered |-> IF nx' = st THEN 0 ELSE ctlHist.unrendered + 1,
                        advances |-> IF nx' = st THEN 0 ELSE ctlHist.advances + 1,
                        steps |-> IF cb.patternMode = "sequential"
                                  THEN ctlHist.steps + 1 ELSE 0,
                        cycles |-> 0, rConst |-> TRUE,
                        last |-> <<[from |-> nx.currentPatternIndex,
                                    to |-> nx'.currentPatternIndex,
                                    mode |-> cb.patternMode,
                                    settled |-> (nx = st),
                                    length |-> cb.notesInMeasure,
                                    repeatCount |-> cb.repeatCount,
                                    cycles |-> counted,
                                    rConst |-> ctlHist.rConst]>>]
                  ELSE [ctlHist EXCEPT !.unrendered = IF nx' = st THEN 0 ELSE @ + 1,
                                       !.cycles = counted,
                                       !.last = <<>>]
    /\ UNCHANGED <<engine, st, cb, awaiting, engineHist>>

NextCtl ==
    \/ Render
    \/ TogglePlay
    \/ TogglePlayResumed
    \/ TogglePlayRejected
    \/ StopPlayback
    \/ Reset
    \/ CtlSetNoteValue
    \/ CtlSetTimeSignature
    \/ SetRepeatCount
    \/ SetPatternMode
    \/ JumpToPattern
    \/ LastBeatTimerFires

\* The controller with its engine: the user's actions, the renders and the
\* timers that deliver onBeat and onMeasureComplete.
SpecCtl == InitCtl /\ [][NextCtl]_vars

\* ------------------------------------------------------------------ playback specification
\* The engine after the "Initialize engine" effect where window is undefined: the
\* constructor creates no audio context.
HeadlessEngine ==
    setCallbacks(
        setTwoMeasureMode(
            setTimeSignature(setNoteValue(setBpm(NewEngine(FALSE), 80), "eighth"), "4/4"),
            TRUE))

\* useMetronome() after its first render and effects, with or without a window.
InitPlay ==
    /\ \/ \E ctxState \in {"suspended", "running"} : engine = MountedEngine(ctxState)
       \/ engine = HeadlessEngine
    /\ stopSinceStart = FALSE
    /\ disposed = FALSE
    /\ stale = <<>>
    /\ lastOp = [op |-> "new", wasPlaying |-> FALSE]
    /\ lastFire = <<>>
    /\ beatLog = <<>>
    /\ lastPass = <<>>
    /\ st = InitialState
    /\ nx = InitialState
    /\ refs = InitialRefs
    /\ cb = Closure(InitialState)
    /\ awaiting = 0
    /\ ctlHist = FreshHist
    /\ calc = NoCalc

NextPlay ==
    \/ Render
    \/ TogglePlay
    \/ TogglePlayResumed
    \/ TogglePlayRejected
    \/ StopPlayback
    \/ Reset
    \/ SetRepeatCount
    \/ LastBeatTimerFires

\* The play, stop and reset controls of the controller, over an engine that may
\* have no audio context.
SpecPlay == InitPlay /\ [][NextPlay]_vars

\* ------------------------------------------------------------------ measure specification
\* useMetronome() after its first render and effects, with the displayed beat
\* index in its state.
InitMeasure ==
    /\ \E ctxState \in {"suspended", "running"} : engine = MountedEngine(ctxState)
    /\ stopSinceStart = FALSE
    /\ disposed = FALSE
    /\ stale = <<>>
    /\ lastOp = [op |-> "new", wasPlaying |-> FALSE]
    /\ lastFire = <<>>
    /\ beatLog = <<>>
    /\ lastPass = <<>>
    /\ st = DisplayState
    /\ nx = DisplayState
    /\ refs = InitialRefs
    /\ cb = Closure(DisplayState)
    /\ awaiting = 0
    /\ ctlHist = FreshHist
    /\ calc = NoCalc

NextMeasure ==
    \/ Render
    \/ TogglePlay
    \/ TogglePlayResumed
    \/ Reset
    \/ CtlSetNoteValue
    \/ CtlSetTimeSignature
    \/ SetPatternMode
    \/ LastBeatTimerFires

\* The changes of notesInMeasure and reset(), in either pattern mode, stopped
\* and Running.
SpecMeasure == InitMeasure /\ [][NextMeasure]_vars

\* ------------------------------------------------------------------ setters specification
\* The history of a step that is the setter call name with the argument arg.
SetterCall(name, arg) ==
    /\ lastOp' = [op |-> name, wasPlaying |-> engine.isPlaying, arg |-> arg]
    /\ lastFire' = <<>>
    /\ lastPass' = <<>>

EngineSetBpm ==
    /\ \E bpm \in SetterBpmInputs :
           /\ engine' = setBpm(engine, bpm)
           /\ SetterCall("setBpm", bpm)
    /\ UNCHANGED <<stopSinceStart, disposed, stale, beatLog, ctlVars>>

EngineSetVolume ==
    /\ \E vol \in SetterVolumeInputs :
           /\ engine' = setVolume(engine, vol)
           /\ SetterCall("setVolume", vol)
    /\ UNCHANGED <<stopSinceStart, disposed, stale, beatLog, ctlVars>>

\* The controller's setRepeatCount and the render that follows it.
CtlSetRepeatCount ==
    /\ \E count \in SetterRepeatCountInputs :
           LET r == render([refs |-> refs, nx |-> setRepeatCount(nx, count),
                            engine |-> engine], st)
           IN  /\ st' = setRepeatCount(nx, count)
               /\ nx' = r.nx
               /\ refs' = r.refs
               /\ engine' = r.engine
               /\ cb' = Closure(st')
               /\ SetterCall("setRepeatCount", count)
    /\ UNCHANGED <<stopSinceStart, disposed, stale, beatLog, awaiting, ctlHist, calc>>

NextSetters ==
    \/ EngineSetBpm
    \/ EngineSetVolume
    \/ CtlSetRepeatCount

\* The clamping setters of the engine and of the mounted controller, called
\* with arguments in and out of range.
SpecSetters == InitCtl /\ [][NextSetters]_vars

\* ------------------------------------------------------------------ patterns specification
\* The measure lengths the note values offered for a time signature give.
MeasureLengths ==
    UNION {{getNotesPerMeasureForTimeSignature(noteValue, timeSignature) :
               noteValue \in getCompatibleNoteValues(timeSignature)} :
           timeSignature \in AllTimeSignatures}

LengthInputs == (0..MaxExhaustiveLength) \cup MeasureLengths

\* For a longer measure: the first and last indices, the middle, and the first
\* indices from 2^32 on.
SampleIds(length) ==
    {index \in [hi : {0, 1, Pow2(length - 17), Pow2(length - 16) - 1, Radix, Radix + 1},
                lo : {0, 1, Radix - 1}] : InRange(index, length)}

IdInputs(length) ==
    IF length <= MaxExhaustiveLength THEN {ToWide(i) : i \in 0..(Pow2(length) - 1)}
    ELSE SampleIds(length)

InitPatterns ==
    /\ engine = initAudioContext(NewEngine(TRUE), "running")
    /\ stopSinceStart = FALSE
    /\ disposed = FALSE
    /\ stale = <<>>
    /\ lastOp = [op |-> "new", wasPlaying |-> FALSE]
    /\ lastFire = <<>>
    /\ beatLog = <<>>
    /\ lastPass = <<>>
    /\ st = NoController /\ nx = NoController /\ refs = NoController
    /\ cb = NoController /\ awaiting = 0 /\ ctlHist = NoController
    /\ \E length \in LengthInputs : \E index \in IdInputs(length) :
           calc = [length |-> length, index |-> index, patterns |-> <<>>, given |-> TRUE]

GetPatternAtIndex ==
    /\ calc.given
    /\ calc.patterns = <<>>
    /\ calc' = [calc EXCEPT !.patterns = <<getPatternAtIndex(calc.index, calc.length)>>]
    /\ UNCHANGED <<engineVars, st, nx, refs, cb, awaiting, ctlHist>>

\* reversePattern applied to the pattern computed last.
ReversePattern ==
    /\ calc.patterns # <<>>
    /\ Len(calc.patterns) <= MaxReversals
    /\ calc' = [calc EXCEPT !.patterns =
                   Append(calc.patterns, reversePattern(calc.patterns[Len(calc.patterns)]))]
    /\ UNCHANGED <<engineVars, st, nx, refs, cb, awaiting, ctlHist>>

NextPatterns ==
    \/ GetPatternAtIndex
    \/ ReversePattern

\* getPatternAtIndex for an index in range, and reversePattern on its result.
SpecPatterns == InitPatterns /\ [][NextPatterns]_vars

\* ------------------------------------------------------------------ index specification
\* The combined indices given for a measure length: two spans of the range
\* below zero and two from zero on.
IndexInputs(length) == (-2 * getTotalPatterns(length))..(2 * getTotalPatterns(length))

\* The results of the index functions, each empty until its function was called.
FreshIndexCalc(length) ==
    [length |-> length, given |-> TRUE, random |-> <<>>, index |-> <<>>, total |-> <<>>,
     normalized |-> <<>>, decomposed |-> <<>>, composed |-> <<>>, pattern |-> <<>>,
     twoMeasure |-> <<>>, name |-> <<>>, variantName |-> <<>>]

\* A combined index handed in (the slider, jumpToPattern), or a value of
\* Math.random() for getRandomPatternIndex.
InitIndex ==
    /\ engine = initAudioContext(NewEngine(TRUE), "running")
    /\ stopSinceStart = FALSE
    /\ disposed = FALSE
    /\ stale = <<>>
    /\ lastOp = [op |-> "new", wasPlaying |-> FALSE]
    /\ lastFire = <<>>
    /\ beatLog = <<>>
    /\ lastPass = <<>>
    /\ st = NoController /\ nx = NoController /\ refs = NoController
    /\ cb = NoController /\ awaiting = 0 /\ ctlHist = NoController
    /\ \E length \in 0..MaxIndexLength :
           \/ \E index \in IndexInputs(length) :
                  calc = [FreshIndexCalc(length) EXCEPT !.index = <<index>>]
           \/ \E random \in 0..(RandomDenominator - 1) :
                  calc = [FreshIndexCalc(length) EXCEPT !.random = <<random>>]

IndexStep == UNCHANGED <<engineVars, st, nx, refs, cb, awaiting, ctlHist>>

GetRandomPatternIndex ==
    /\ calc.random # <<>>
    /\ calc.index = <<>>
    /\ calc' = [calc EXCEPT !.index = <<getRandomPatternIndexAt(calc.random[1], calc.length)>>]
    /\ IndexStep

GetTotalPatterns ==
    /\ calc.random = <<>>
    /\ calc.total = <<>>
    /\ calc' = [calc EXCEPT !.total = <<getTotalPatterns(calc.length)>>]
    /\ IndexStep

\* normalizePatternIndex on the index given, then on its own result.
NormalizePatternIndex ==
    /\ calc.total # <<>>
    /\ Len(calc.normalized) < 2
    /\ calc' = [calc EXCEPT !.normalized =
                   Append(@, normalizePatternIndex(
                                 IF @ = <<>> THEN calc.index[1] ELSE @[Len(@)],
                                 calc.length))]
    /\ IndexStep

\* decomposePatternIndex(normalizedIndex), as the pattern memos call it.
DecomposePatternIndex ==
    /\ Len(calc.normalized) = 2
    /\ calc.decomposed = <<>>
    /\ calc' = [calc EXCEPT !.decomposed = <<decomposePatternIndex(calc.normalized[1])>>]
    /\ IndexStep

ComposePatternIndex ==
    /\ calc.decomposed # <<>>
    /\ calc.composed = <<>>
    /\ calc' = [calc EXCEPT !.composed =
                   <<composePatternIndex(calc.decomposed[1].baseIndex,
                                         calc.decomposed[1].variantIndex)>>]
    /\ IndexStep

\* The rest of the currentTwoMeasure memo: the base pattern and its variant.
CreateTwoMeasurePatternVariant ==
    /\ calc.composed # <<>>
    /\ calc.twoMeasure = <<>>
    /\ LET d == calc.decomposed[1]
           pattern == getPatternAtIndex(ToWide(normalizedBase(d.baseIndex, calc.length)),
                                        calc.length)
       IN  calc' = [calc EXCEPT
                       !.pattern = <<pattern>>,
                       !.twoMeasure = <<createTwoMeasurePatternVariant(
                                           pattern, getVariantFromIndex(d.variantIndex))>>]
    /\ IndexStep

GetPatternDisplayName ==
    /\ calc.twoMeasure # <<>>
    /\ calc.name = <<>>
    /\ calc' = [calc EXCEPT !.name = <<getPatternDisplayName(calc.pattern[1])>>]
    /\ IndexStep

\* The currentPatternName memo.
GetVariantDisplayName ==
    /\ calc.name # <<>>
    /\ calc.variantName = <<>>
    /\ calc' = [calc EXCEPT !.variantName =
                   <<getVariantDisplayName(calc.normalized[1], calc.length)>>]
    /\ IndexStep

NextIndex ==
    \/ GetRandomPatternIndex
    \/ GetTotalPatterns
    \/ NormalizePatternIndex
    \/ DecomposePatternIndex
    \/ ComposePatternIndex
    \/ CreateTwoMeasurePatternVariant
    \/ GetPatternDisplayName
    \/ GetVariantDisplayName

\* The index functions of data/patterns.ts, in the order the controller's memos
\* call them.
SpecIndex == InitIndex /\ [][NextIndex]_vars

\* ------------------------------------------------------------------ engine properties
\* C1: a visual timer created for a note scheduled before a stop() call never
\* invokes onBeat or onMeasureComplete once that stop() has returned, also when
\* start() was called again before it fires.
C1_StoppedTimersStaySilent == \A i \in DOMAIN lastFire : ~lastFire[i].stale

\* C2: after stop() has returned and until the next start() call, no polling
\* pass schedules an audio event.
C2_NoAudioAfterStop ==
    \A i \in DOMAIN lastPass : ~(lastPass[i].click /\ lastPass[i].afterStop)

\* C3: start() called while Running changes nothing of the engine, and stop()
\* called while Stopped changes nothing of the engine.
C3_NoOpCalls ==
    [][/\ (engine.isPlaying /\ StartCall) => engine' = engine
       /\ (~engine.isPlaying /\ Stop) => engine' = engine]_vars

\* start() was called while Running, after at least one note of the run was
\* scheduled: the beat index start() would reset is not 0.
C3_StartWhileRunning ==
    /\ lastOp = [op |-> "start", wasPlaying |-> TRUE]
    /\ engine.isPlaying
    /\ engine.currentBeat > 0
    /\ engine.timerID # 0

\* C4: while Running, onMeasureComplete fires after an onBeat call exactly when
\* that call's beatIndex is the cycle's last, totalNotesInCycle - 1, whatever
\* setters were called during the run.
C4_CompleteAtLastBeat ==
    \A i \in DOMAIN lastFire :
        lastFire[i].complete <=>
            (lastFire[i].beatIndex # NaN /\ lastFire[i].beatIndex = lastFire[i].totalNow - 1)

\* C5: the beat indices delivered in a run are 0, 1, ..., totalNotesInCycle - 1,
\* 0, ...: the first is 0 and each later one is the one before plus 1 modulo
\* totalNotesInCycle.
C5_BeatsInOrder ==
    \A i \in DOMAIN lastFire :
        IF lastFire[i].prev = <<>>
        THEN lastFire[i].beatIndex = 0
        ELSE lastFire[i].beatIndex = (lastFire[i].prev[1] + 1) % lastFire[i].totalNow

\* C6: after dispose() no start() call makes the engine Running, and no note is
\* scheduled.
C6_NoRestartAfterDispose == disposed => (~engine.isPlaying /\ lastPass = <<>>)

\* C7: a start() call that cannot start the audio (no context, or resume() of
\* the suspended context fails) raises nothing to its caller.
C7_StartFailsSilently == lastOp.op # "rejected"

\* ------------------------------------------------------------------ controller properties
\* C8: when onMeasureComplete is delivered again before the state set by the
\* delivery before it has been rendered, the current pattern index advances only
\* once (stated for repeat counts of 2 and more, where two cycles in a row cannot
\* both end a pattern's repeats).
C8_DuplicateAdvancesOnce == cb.repeatCount >= 2 => ctlHist.advances <= 1

\* C9: when the repeat counter has reached the repeat count, in sequential mode
\* the new current pattern index is normalizePatternIndex(previous current + 1),
\* and with a repeat count that stayed R the pattern before was current for
\* exactly R cycles (stated for the deliveries that find every earlier update
\* rendered).
C9_SequentialAdvance ==
    \A i \in DOMAIN ctlHist.last :
        LET t == ctlHist.last[i]
        IN  (t.mode = "sequential" /\ t.settled) =>
                /\ t.to = normalizePatternIndex(t.from + 1, t.length)
                /\ t.rConst => t.cycles = t.repeatCount

\* C10: in every rendered controller state currentPatternIndex and
\* nextPatternIndex are in [0, totalPatterns(notesInMeasure)), and the base
\* indices handed to getPatternAtIndex are in [0, 2^notesInMeasure).
C10_IndicesInRange ==
    LET length == notesInMeasure(st)
    IN  /\ st.currentPatternIndex \in 0..(getTotalPatterns(length) - 1)
        /\ st.nextPatternIndex \in 0..(getTotalPatterns(length) - 1)
        /\ patternBaseIndex(st.currentPatternIndex, length)
               \in 0..(getBasePatternCount(length) - 1)
        /\ patternBaseIndex(st.nextPatternIndex, length)
               \in 0..(getBasePatternCount(length) - 1)

\* ------------------------------------------------------------------ beat index and accents
\* C11: while Running with a cycle of at least one note, the current beat index
\* is in 0 .. totalNotesInCycle - 1, and so is every beatIndex passed to onBeat,
\* also after a setter changed totalNotesInCycle during the run.
C11_BeatIndexInRange ==
    (engine.isPlaying /\ getTotalNotesInCycle(engine) > 0) =>
        /\ engine.currentBeat \in 0..(getTotalNotesInCycle(engine) - 1)
        /\ \A i \in DOMAIN lastFire :
               lastFire[i].beatIndex \in 0..(getTotalNotesInCycle(engine) - 1)

\* C12: every scheduled note whose position within its measure is 0 gets the
\* downbeat tier (high pitch, full volume); in two-measure mode that includes
\* the note with beatIndex = notesInMeasure.
C12_DownbeatAtPositionZero ==
    \A i \in DOMAIN lastPass :
        positionInMeasure(engine, lastPass[i].beatIndex) = 0 =>
            lastPass[i].tier = [frequency |-> clickFrequencyHigh, gain |-> 100]

\* C13: under quarter-only a click is audible for a note exactly when its
\* position p in the measure is a whole multiple of notesPerBeat (with eighth
\* notes: the even positions), under every-note for every note, and in both
\* modes every scheduled note gets its visual timer, which delivers onBeat.
C13_ClickPolicy ==
    /\ \A i \in DOMAIN lastPass :
           LET p == positionInMeasure(engine, lastPass[i].beatIndex)
               X4 == getNotesPerBeatX4(engine.noteValue)
           IN  /\ engine.clickMode = "every-note" => lastPass[i].click
               /\ engine.clickMode = "quarter-only" =>
                      (lastPass[i].click <=>
                          (p # NaN /\ \E k \in 0..(4 * p) : 4 * p = k * X4))
               /\ (engine.clickMode = "quarter-only" /\ engine.noteValue = "eighth") =>
                      (lastPass[i].click <=> (p # NaN /\ p % 2 = 0))
               /\ Len(engine.timers) >= Len(lastPass)
               /\ engine.timers[Len(engine.timers) - Len(lastPass) + i].beatIndex
                      = lastPass[i].beatIndex
    /\ lastOp.op = "timer" => Len(lastFire) = 1

\* An eighth note at an odd position was scheduled without a click under
\* quarter-only.
C13_SilentOffbeat ==
    /\ engine.clickMode = "quarter-only"
    /\ engine.noteValue = "eighth"
    /\ \E i \in DOMAIN lastPass :
           /\ ~lastPass[i].click
           /\ positionInMeasure(engine, lastPass[i].beatIndex) % 2 = 1

\* C14: a note that does not get the downbeat tier gets the strong-beat tier
\* (low pitch, 80% volume) exactly when, in a compound signature, its position
\* p is 0 or floor(notesInMeasure / 2), or, in a simple signature, p is a whole
\* multiple of notesPerBeat; otherwise the third tier (low pitch x 0.8, 50%).
C14_StrongBeatTier ==
    \A i \in DOMAIN lastPass :
        LET p == positionInMeasure(engine, lastPass[i].beatIndex)
            X4 == getNotesPerBeatX4(engine.noteValue)
            strong == IF engine.timeSignature = "6/8"
                      THEN p # NaN /\ (p = 0 \/ p = engine.notesInMeasure \div 2)
                      ELSE p # NaN /\ \E k \in 0..(4 * p) : 4 * p = k * X4
        IN  lastPass[i].tier # [frequency |-> 1000, gain |-> 100] =>
                lastPass[i].tier = IF strong THEN [frequency |-> 800, gain |-> 80]
                                   ELSE [frequency |-> 640, gain |-> 50]

\* In 6/8 with eighth notes the note at position 2, a whole multiple of
\* notesPerBeat that is neither 0 nor the middle of the measure, was scheduled
\* in the third tier.
C14_CompoundThirdTier ==
    /\ engine.timeSignature = "6/8"
    /\ engine.noteValue = "eighth"
    /\ \E i \in DOMAIN lastPass :
           /\ positionInMeasure(engine, lastPass[i].beatIndex) = 2
           /\ lastPass[i].tier = [frequency |-> 640, gain |-> 50]

\* C15: after any setter calls the engine's bpm is in 20..300, its volume in
\* 0..1 and the controller's repeat count in 1..32, and a setter called with an
\* argument out of range stores the nearest bound.
C15_SettersClamp ==
    /\ engine.bpm \in 20..300
    /\ engine.volume \in 0..100
    /\ st.repeatCount \in 1..32
    /\ nx.repeatCount \in 1..32
    /\ lastOp.op = "setBpm" =>
           engine.bpm = (IF lastOp.arg < 20 THEN 20
                         ELSE IF lastOp.arg > 300 THEN 300 ELSE lastOp.arg)
    /\ lastOp.op = "setVolume" =>
           engine.volume = (IF lastOp.arg < 0 THEN 0
                            ELSE IF lastOp.arg > 100 THEN 100 ELSE lastOp.arg)
    /\ lastOp.op = "setRepeatCount" =>
           st.repeatCount = (IF lastOp.arg < 1 THEN 1
                             ELSE IF lastOp.arg > 32 THEN 32 ELSE lastOp.arg)

\* setBpm was called with 1000 and the engine holds the upper bound, after the
\* volume and the repeat count were set to their lower bounds from below.
C15_OutOfRangeStored ==
    /\ lastOp.op = "setBpm"
    /\ lastOp.arg = 1000
    /\ engine.bpm = 300
    /\ engine.volume = 0
    /\ st.repeatCount = 1

\* C16: notesInMeasure is floor(notesPerBeat x beatsPerMeasure) and
\* totalNotesInCycle is twice that in two-measure mode, else once, for every
\* subdivision and signature; consecutive scheduled notes are exactly
\* (60 / bpm) / notesPerBeat apart; at 120 bpm with quarter notes in 4/4, single
\* measure, that is 0.5 s per note and 4 notes per cycle, onMeasureComplete
\* comes with onBeat(3) and with no other beat, and the beat index after note 3
\* is 0.
C16_NotesAndTiming ==
    LET X4 == getNotesPerBeatX4(engine.noteValue)
        beats == TIME_SIGNATURE_CONFIGS[engine.timeSignature].beatsPerMeasure
        N == engine.notesInMeasure
        scenario == /\ engine.bpm = 120 /\ engine.noteValue = "quarter"
                    /\ engine.timeSignature = "4/4" /\ ~engine.twoMeasureMode
    IN  /\ 4 * N <= X4 * beats
        /\ X4 * beats < 4 * (N + 1)
        /\ getTotalNotesInCycle(engine) = IF engine.twoMeasureMode THEN 2 * N ELSE N
        /\ \A i \in DOMAIN lastPass :
               LET nextTime == IF i < Len(lastPass) THEN lastPass[i + 1].time
                               ELSE engine.nextNoteTime
               IN  /\ (nextTime - lastPass[i].time) * engine.bpm * X4 = 60 * 240 * 4
                   /\ scenario => nextTime - lastPass[i].time = 120
        /\ scenario =>
               /\ getTotalNotesInCycle(engine) = 4
               /\ \A i \in DOMAIN lastFire :
                      lastFire[i].complete <=> lastFire[i].beatIndex = 3
               /\ (lastPass # <<>> /\ lastPass[Len(lastPass)].beatIndex = 3) =>
                      engine.currentBeat = 0

\* At 120 bpm, quarter notes, 4/4, single measure: onBeat(3) was delivered after
\* onBeat(2) and onMeasureComplete with it.
C16_FourthBeatCompletes ==
    /\ engine.bpm = 120 /\ engine.noteValue = "quarter"
    /\ engine.timeSignature = "4/4" /\ ~engine.twoMeasureMode
    /\ lastFire # <<>>
    /\ lastFire[1].beatIndex = 3
    /\ lastFire[1].complete
    /\ lastFire[1].prev = <<2>>

\* ------------------------------------------------------------------ pattern properties
\* C17: for every length N in 1..16 and every index i in 0..2^N - 1,
\* getPatternAtIndex(i, N) has id i and a sticking of N hands that is i in
\* binary, most significant bit first, 0 as 'R' and 1 as 'L'; reading the
\* sticking back as a binary number gives i.
C17_BinaryEncoding ==
    (calc.patterns # <<>> /\ calc.length \in 1..16) =>
        LET N == calc.length
            i == calc.index.hi * 65536 + calc.index.lo
            p == calc.patterns[1]
            decoded[k \in 0..N] ==
                IF k = 0 THEN 0
                ELSE 2 * decoded[k - 1] + (IF p.sticking[k] = "L" THEN 1 ELSE 0)
        IN  /\ p.id = calc.index
            /\ Len(p.sticking) = N
            /\ \A k \in 1..N : p.sticking[k] \in {"R", "L"}
            /\ \A k \in 1..N : (p.sticking[k] = "L") <=> ((i \div Pow2(N - k)) % 2 = 1)
            /\ decoded[N] = i

\* Length 16, index 65534: fifteen 'L' and then an 'R'.
C17_SixteenHands ==
    /\ calc.length = 16
    /\ calc.index = [hi |-> 0, lo |-> 65534]
    /\ calc.patterns # <<>>
    /\ calc.patterns[1].sticking[1] = "L"
    /\ calc.patterns[1].sticking[15] = "L"
    /\ calc.patterns[1].sticking[16] = "R"

\* C18: for every measure length N a note value and a time signature give (0 up
\* to 36), two distinct indices in 0..2^N - 1 never get the same sticking from
\* getPatternAtIndex: here the pattern computed is compared with the patterns
\* of the indices 0, 1, 2^32 and 2^32 + 1.
C18_IdDeterminesSticking ==
    (calc.patterns # <<>> /\ calc.length \in MeasureLengths) =>
        \A other \in [hi : {0, 65536}, lo : {0, 1}] :
            (InRange(other, calc.length) /\ other # calc.index) =>
                getPatternAtIndex(other, calc.length).sticking # calc.patterns[1].sticking

\* C19: reversePattern(reversePattern(p)) is p, in id and in sticking, for every
\* pattern p getPatternAtIndex gives for an index in range.
C19_ReverseTwice ==
    Len(calc.patterns) >= 3 => calc.patterns[3] = calc.patterns[1]

\* "RLRL" (index 5 of length 4) reversed is "LRLR", and reversed again.
C19_ParadiddleBack ==
    /\ calc.length = 4
    /\ calc.index = [hi |-> 0, lo |-> 5]
    /\ Len(calc.patterns) >= 3
    /\ calc.patterns[1].sticking = <<"R", "L", "R", "L">>
    /\ calc.patterns[2].sticking = <<"L", "R", "L", "R">>
    /\ calc.patterns[3].sticking = <<"R", "L", "R", "L">>

\* C20: reversePattern(p), for p of length N, has N hands, each the other hand
\* of p's, and the id 2^N - 1 - p.id (p.id and the new id add up to the number
\* with N one bits).
C20_ReverseFlips ==
    \A k \in 2..Len(calc.patterns) :
        LET p == calc.patterns[k - 1]
            r == calc.patterns[k]
            N == Len(p.sticking)
            lo == p.id.lo + r.id.lo
            hi == p.id.hi + r.id.hi + (lo \div 65536)
        IN  /\ Len(r.sticking) = N
            /\ \A j \in 1..N : /\ p.sticking[j] = "L" => r.sticking[j] = "R"
                               /\ p.sticking[j] = "R" => r.sticking[j] = "L"
            /\ lo % 65536 = (IF N < 16 THEN Pow2(N) - 1 ELSE 65535)
            /\ hi = (IF N < 16 THEN 0 ELSE Pow2(N - 16) - 1)

\* Length 36, index 1: the reversal's id is 2^36 - 2.
C20_LongMeasure ==
    /\ calc.length = 36
    /\ calc.index = [hi |-> 0, lo |-> 1]
    /\ Len(calc.patterns) >= 2
    /\ Len(calc.patterns[2].sticking) = 36
    /\ calc.patterns[2].id = [hi |-> 1048575, lo |-> 65534]

\* ------------------------------------------------------------------ index properties
\* C21: for every integer x, negative, zero or positive, and every length L,
\* normalizePatternIndex(x, L) is in 0..getTotalPatterns(L) - 1, differs from x
\* by a multiple of getTotalPatterns(L), and normalizing it again gives the same
\* value.
C21_NormalizeIdempotent ==
    LET total == 3 * Pow2(calc.length)
    IN  /\ \A k \in DOMAIN calc.normalized :
               /\ calc.normalized[k] \in 0..(total - 1)
               /\ \E q \in -3..3 : calc.normalized[k] = calc.index[1] + q * total
        /\ Len(calc.normalized) = 2 => calc.normalized[2] = calc.normalized[1]

\* Length 8, x = -1: normalized to 767, and 767 again.
C21_MinusOneWraps ==
    /\ calc.given
    /\ calc.length = 8
    /\ calc.index = <<-1>>
    /\ calc.normalized = <<767, 767>>

\* C22: for every x >= 0, decomposePatternIndex(x) gives baseIndex = floor(x / 3)
\* and variantIndex = x mod 3, one of 0, 1, 2, and composePatternIndex of the
\* two is x again.
C22_DecomposeCompose ==
    (calc.decomposed # <<>> /\ calc.normalized[1] >= 0) =>
        LET x == calc.normalized[1]
            d == calc.decomposed[1]
        IN  /\ 3 * d.baseIndex <= x
            /\ x < 3 * (d.baseIndex + 1)
            /\ d.variantIndex \in {0, 1, 2}
            /\ d.variantIndex = x - 3 * d.baseIndex
            /\ calc.composed # <<>> => calc.composed[1] = x

\* x = 766 is base pattern 255 in variant 1, composed back to 766.
C22_LastButOne ==
    /\ calc.given
    /\ calc.index = <<766>>
    /\ calc.decomposed = <<[baseIndex |-> 255, variantIndex |-> 1]>>
    /\ calc.composed = <<766>>

\* C23: getTotalPatterns(length) is 2^length * 3 for every length >= 0, which is
\* 3 for length 0; the divisors of normalizePatternIndex and of
\* getVariantDisplayName and the factor of getRandomPatternIndex are never zero,
\* so the index, the random index and the variant label are always defined.
C23_TotalPatterns ==
    LET L == calc.length
        expected[k \in 0..L] == IF k = 0 THEN 3 ELSE 2 * expected[k - 1]
    IN  /\ calc.total # <<>> =>
               /\ calc.total[1] = expected[L]
               /\ L = 0 => calc.total[1] = 3
               /\ calc.total[1] # 0
        /\ getBasePatternCount(L) # 0
        /\ \A k \in DOMAIN calc.normalized : calc.normalized[k] \in 0..(expected[L] - 1)
        /\ (calc.random # <<>> /\ calc.index # <<>>) => calc.index[1] \in 0..(expected[L] - 1)
        /\ calc.variantName # <<>> => calc.variantName[1].label # "undefined"

\* Length 0: three patterns, -1 is normalized to 2, the pattern has no hands
\* and its name is "Pattern #1 (+ Rev)".
C23_EmptyMeasure ==
    /\ calc.given
    /\ calc.length = 0
    /\ calc.index = <<-1>>
    /\ calc.total = <<3>>
    /\ calc.normalized = <<2, 2>>
    /\ calc.pattern # <<>>
    /\ calc.pattern[1].sticking = <<>>
    /\ calc.variantName # <<>>
    /\ calc.variantName[1].baseName.kind = "number"
    /\ calc.variantName[1].label = "(+ Rev)"

\* C24: createTwoMeasurePatternVariant gives (p, p) for variant index 0,
\* (reverse(p), reverse(p)) for index 1 and (p, reverse(p)) for index 2, for
\* every pattern p, and both measures have as many hands as p.
C24_VariantMeasures ==
    calc.twoMeasure # <<>> =>
        LET p == calc.pattern[1]
            v == calc.decomposed[1].variantIndex
            two == calc.twoMeasure[1]
            flipped == [k \in 1..Len(p.sticking) |->
                           IF p.sticking[k] = "L" THEN "R" ELSE "L"]
        IN  /\ DOMAIN two = {"measure1", "measure2"}
            /\ v = 0 => two.measure1 = p /\ two.measure2 = p
            /\ v = 1 => /\ two.measure1 = reversePattern(p)
                        /\ two.measure2 = reversePattern(p)
                        /\ two.measure1.sticking = flipped
            /\ v = 2 => /\ two.measure1 = p
                        /\ two.measure2 = reversePattern(p)
                        /\ two.measure2.sticking = flipped
            /\ v \in {0, 1, 2}
            /\ Len(two.measure1.sticking) = Len(p.sticking)
            /\ Len(two.measure2.sticking) = Len(p.sticking)

\* Index 4 of length 3 is base pattern 1 ("RRL") in variant 1: both measures
\* are its reversal "LLR".
C24_ReversalDoubled ==
    /\ calc.given
    /\ calc.length = 3
    /\ calc.index = <<4>>
    /\ calc.twoMeasure # <<>>
    /\ calc.pattern[1].sticking = <<"R", "R", "L">>
    /\ calc.twoMeasure[1].measure1.sticking = <<"L", "L", "R">>
    /\ calc.twoMeasure[1].measure2.sticking = <<"L", "L", "R">>
    /\ calc.twoMeasure[1].measure1.id = [hi |-> 0, lo |-> 6]

\* C25: getRandomPatternIndex(length) is always an integer in
\* 0..getTotalPatterns(length) - 1, and every integer of that range is the
\* result for some value of Math.random() (checked for each length in the
\* state where Math.random() gave 0).
C25_RandomInRange ==
    (calc.random # <<>> /\ calc.index # <<>>) =>
        LET total == 3 * Pow2(calc.length)
        IN  /\ calc.index[1] \in 0..(total - 1)
            /\ calc.random[1] = 0 =>
                   \A v \in 0..(total - 1) :
                       \E random \in 0..(RandomDenominator - 1) :
                           getRandomPatternIndexAt(random, calc.length) = v

\* The largest Math.random() gives the last index, 767 of length 8.
C25_LastIndexDrawn ==
    /\ calc.given
    /\ calc.length = 8
    /\ calc.random = <<RandomDenominator - 1>>
    /\ calc.index = <<767>>

\* C26: getPatternDisplayName gives "Single Stroke Roll" for RLRLRLRL; a
\* sticking of the rudiment table gets the table's name; a sticking not in the
\* table gets "<unit> Pattern" with its first 2 hands when it has at least 4
\* hands, an even number of them, and repeats those 2, or else with its first 4
\* hands when it has at least 8 hands, a multiple of 4, and repeats those 4;
\* any other sticking gets "Pattern #" and id + 1.
C26_DisplayName ==
    calc.name # <<>> =>
        LET p == calc.pattern[1]
            s == p.sticking
            n == Len(s)
            name == calc.name[1]
            inTable == \E i \in DOMAIN rudiments8 : rudiments8[i].sticking = s
            repeats2 == n >= 4 /\ n % 2 = 0 /\ \A k \in 1..(n - 2) : s[k + 2] = s[k]
            repeats4 == n >= 8 /\ n % 4 = 0 /\ \A k \in 1..(n - 4) : s[k + 4] = s[k]
        IN  /\ s = <<"R", "L", "R", "L", "R", "L", "R", "L">> =>
                   name = [kind |-> "rudiment", text |-> "Single Stroke Roll"]
            /\ inTable =>
                   /\ name.kind = "rudiment"
                   /\ \E i \in DOMAIN rudiments8 :
                          rudiments8[i].sticking = s /\ rudiments8[i].name = name.text
            /\ (~inTable /\ repeats2) =>
                   name = [kind |-> "unit", unit |-> <<s[1], s[2]>>, text |-> " Pattern"]
            /\ (~inTable /\ ~repeats2 /\ repeats4) =>
                   name = [kind |-> "unit", unit |-> <<s[1], s[2], s[3], s[4]>>,
                           text |-> " Pattern"]
            /\ (~inTable /\ ~repeats2 /\ ~repeats4) =>
                   /\ name.kind = "number"
                   /\ name.text = "Pattern #"
                   /\ name.number.hi * 65536 + name.number.lo
                          = p.id.hi * 65536 + p.id.lo + 1

\* The length-8 sticking RRLRRRLR (base pattern 34) is not in the table and
\* repeats its first four hands: "RRLR Pattern".
C26_FourHandUnit ==
    /\ calc.given
    /\ calc.length = 8
    /\ calc.name # <<>>
    /\ calc.pattern[1].sticking = <<"R", "R", "L", "R", "R", "R", "L", "R">>
    /\ calc.name[1].kind = "unit"
    /\ calc.name[1].unit = <<"R", "R", "L", "R">>

\* ------------------------------------------------------------------ setters, run state, polling
\* C27: setBpm, setNoteValue, setTimeSignature, setTwoMeasureMode, setClickMode,
\* setVolume and setCallbacks, called on a Stopped or a Running engine, leave
\* isPlaying, timerID, currentBeat, nextNoteTime and the notes already scheduled
\* as they were, and the new values are used only by notes scheduled in later
\* polling passes: what a pending visual timer delivers is not changed by the call.
C27_SettersFrame ==
    [][lastOp'.op \in {"setBpm", "setNoteValue", "setTimeSignature", "setTwoMeasureMode",
                       "setClickMode", "setVolume", "setCallbacks"} =>
           /\ engine'.isPlaying = engine.isPlaying
           /\ engine'.timerID = engine.timerID
           /\ engine'.currentBeat = engine.currentBeat
           /\ engine'.nextNoteTime = engine.nextNoteTime
           /\ engine'.timers = engine.timers
           /\ engine.timers # <<>> =>
                  (engine'.callbacks /\ engine'.isPlaying)
                      = (engine.callbacks /\ engine.isPlaying)]_vars

\* C27 as amended: the seven setters leave isPlaying, timerID, currentBeat,
\* nextNoteTime and the pending visual timers as they were; the values of the
\* six configuration setters are used only by notes scheduled in later polling
\* passes (a pass gives each note the volume, the click policy and the spacing
\* of the configuration at that pass); the callbacks of setCallbacks are used at
\* once, by the timers of the notes already scheduled as well.
C27_SettersFrameAmended ==
    [][/\ lastOp'.op \in {"setBpm", "setNoteValue", "setTimeSignature", "setTwoMeasureMode",
                          "setClickMode", "setVolume", "setCallbacks"} =>
              /\ engine'.isPlaying = engine.isPlaying
              /\ engine'.timerID = engine.timerID
              /\ engine'.currentBeat = engine.currentBeat
              /\ engine'.nextNoteTime = engine.nextNoteTime
              /\ engine'.timers = engine.timers
              /\ lastOp'.op # "setCallbacks" => engine'.callbacks = engine.callbacks
              /\ lastOp'.op = "setCallbacks" => engine'.callbacks
       /\ lastOp'.op = "scheduler" =>
              \A i \in DOMAIN lastPass' :
                  LET note == lastPass'[i]
                      nextTime == IF i < Len(lastPass') THEN lastPass'[i + 1].time
                                  ELSE engine'.nextNoteTime
                  IN  /\ note.volume = engine.volume
                      /\ engine.clickMode = "every-note" => note.click
                      /\ (nextTime - note.time) * engine.bpm
                             * getNotesPerBeatX4(engine.noteValue) = 60 * 240 * 4
       /\ (lastOp'.op = "timer" /\ lastFire' # <<>>) => engine.callbacks]_vars

\* setNoteValue was called on a Running engine in the middle of a cycle, with a
\* visual timer pending and after the volume was changed.
C27_SetWhileRunning ==
    /\ lastOp.op = "setNoteValue"
    /\ lastOp.wasPlaying
    /\ engine.isPlaying
    /\ engine.timers # <<>>
    /\ engine.currentBeat # 0
    /\ engine.volume # 50

\* C28: a start() that gets to its end leaves the engine Running with
\* currentBeat 0, nothing but a polling pass, start() or stop() changes
\* currentBeat, and the first note of the pass that follows has beatIndex 0;
\* stop() on a Running engine leaves isPlaying false, timerID null and
\* currentBeat 0.
C28_RunStateReset ==
    [][/\ (lastOp'.op = "start" /\ ~engine.isPlaying /\ engine'.isPlaying) =>
              engine'.currentBeat = 0
       /\ lastOp'.op = "resumed" => engine'.isPlaying /\ engine'.currentBeat = 0
       /\ engine'.currentBeat # engine.currentBeat =>
              lastOp'.op \in {"start", "resumed", "scheduler", "stop", "dispose"}
       /\ ( /\ lastOp'.op = "scheduler"
            /\ lastPass' # <<>>
            /\ \/ lastOp.op = "resumed"
               \/ lastOp.op = "start" /\ ~lastOp.wasPlaying /\ engine.isPlaying ) =>
              lastPass'[1].beatIndex = 0
       /\ (lastOp'.op = "stop" /\ engine.isPlaying) =>
              /\ ~engine'.isPlaying
              /\ engine'.timerID = 0
              /\ engine'.currentBeat = 0]_vars

\* stop() was called on a Running engine that had scheduled notes: their
\* visual timers are still pending and the run state is reset.
C28_StoppedMidCycle ==
    /\ lastOp.op = "stop"
    /\ lastOp.wasPlaying
    /\ Len(engine.timers) = 2
    /\ ~engine.isPlaying
    /\ engine.timerID = 0
    /\ engine.currentBeat = 0

\* C29: a polling pass schedules a note only at a time less than 0.1 s (24
\* ticks) after the audio clock's current time; each note is later than the one
\* before it by the note interval, which is positive, so the pass schedules
\* finitely many notes (no more than fit between the first one and the
\* horizon); when the pass ends nextNoteTime is at least 0.1 s after the
\* current time, and a pass that finds nextNoteTime there schedules nothing.
C29_PassFillsHorizon ==
    [][lastOp'.op = "scheduler" =>
           LET horizon == 24
               notes == lastPass'
               interval == (60 * 240 * 4)
                               \div (engine.bpm * getNotesPerBeatX4(engine.noteValue))
               before == engine.nextNoteTime - lastOp'.elapsed
           IN  /\ interval > 0
               /\ \A i \in DOMAIN notes : notes[i].time < horizon
               /\ \A i \in DOMAIN notes :
                      notes[i].time = before + (i - 1) * interval
               /\ engine'.nextNoteTime = before + Len(notes) * interval
               /\ engine'.nextNoteTime >= horizon
               /\ before >= horizon => notes = <<>>
               /\ notes # <<>> => (Len(notes) - 1) * interval < horizon - before]_vars

\* A late pass has scheduled four notes at once and left nextNoteTime beyond
\* the horizon.
C29_LatePassSchedulesFour ==
    /\ lastOp.op = "scheduler"
    /\ Len(lastPass) = 4
    /\ lastPass[4].time < 24
    /\ engine.nextNoteTime >= 24

\* C30: in every reachable state of the engine at most one polling interval
\* timer exists, and timerID is non-null exactly when isPlaying is true, also
\* when start() is called a second time while the first call is waiting for
\* audioContext.resume().
C30_OneIntervalTimer ==
    /\ Cardinality(engine.intervals) <= 1
    /\ (engine.timerID # 0) <=> engine.isPlaying

\* C31: when stop() is called while a start() call is suspended at await
\* audioContext.resume(), the engine is not Running when that start() call
\* completes: a resumed start() that follows a stop() with no start() call in
\* between leaves isPlaying false.
C31_StopCancelsPendingStart ==
    [][(lastOp'.op = "resumed" /\ stopSinceStart /\ ~disposed) => ~engine'.isPlaying]_vars

\* C32: whenever no start() call is pending, the controller's isPlaying flag
\* (with the queued updates applied) equals the engine's isRunning(), also when
\* start() returned without starting the engine for want of an audio context.
C32_FlagMirrorsEngine ==
    (awaiting = 0 /\ engine.pendingStarts = 0) => nx.isPlaying = engine.isPlaying

\* C33: while the engine runs with a constant repeat count R, a transition
\* comes after at most R further cycle-completes, in either pattern mode: a
\* cycle-complete that finds every earlier update rendered either counts the
\* repeat counter up while it is below R, or, once the counter has reached R,
\* is a transition (the previewed next pattern becomes current and the counter
\* returns to 1); the duplicate guard never holds that transition back.
C33_TransitionWithinRepeats ==
    [][(LastBeatTimerFires /\ nx = st /\ cb = Closure(st)) =>
           IF refs.currentRepeatRef >= st.repeatCount
           THEN /\ nx'.currentPatternIndex = st.nextPatternIndex
                /\ nx'.currentRepeat = 1
           ELSE nx'.currentRepeat = st.currentRepeat + 1]_vars

\* C34: while the engine is Running with a time signature and a subdivision
\* that getCompatibleNoteValues offers for it, the beat index stays a defined
\* integer and, with fair timers, onMeasureComplete is delivered again and
\* again; whole notes in 2/4 and 3/4, where Math.floor(notesPerBeat x
\* beatsPerMeasure) is 0, are among these configurations.
C34_CyclesKeepCompleting ==
    LET offered == engine.noteValue \in getCompatibleNoteValues(engine.timeSignature)
        completes == lastFire # <<>> /\ \A i \in DOMAIN lastFire : lastFire[i].complete
    IN  /\ []((engine.isPlaying /\ offered) => engine.currentBeat # NaN)
        /\ []((engine.isPlaying /\ offered) => <>completes)

\* C35: the preview is faithful: in every controller state whose updates have
\* all been rendered nextPatternRef equals the nextPatternIndex state, and at
\* every transition the new current pattern index is the nextPatternIndex that
\* the last render before the transition displayed.
C35_PreviewFaithful ==
    /\ [](nx = st => refs.nextPatternRef = st.nextPatternIndex)
    /\ [][(LastBeatTimerFires /\ isTransition([refs |-> refs, nx |-> nx], cb)) =>
              nx'.currentPatternIndex = st.nextPatternIndex]_vars

\* C36: in every rendered controller state 1 <= currentRepeat <= repeatCount,
\* whatever the interleaving of cycle-completes and setRepeatCount calls,
\* lowering the repeat count below the current repeat included.
C36_RepeatWithinCount == 1 <= st.currentRepeat /\ st.currentRepeat <= st.repeatCount

\* C37: the render in which a note-value or time-signature change alters
\* notesInMeasure sets currentPatternIndex to 0, nextPatternIndex and
\* nextPatternRef to 1 and the repeat counter to 1 and clears the duplicate
\* guard, in either pattern mode, Running or not; reset() sets the same pattern
\* state, and after it the engine is stopped, isPlaying is false and the
\* displayed beat index is 0.
C37_ResetOnMeasureChange ==
    [][LET patternsReset == /\ nx'.currentPatternIndex = 0
                            /\ nx'.nextPatternIndex = 1
                            /\ refs'.nextPatternRef = 1
                            /\ nx'.currentRepeat = 1
                            /\ refs'.lastProcessedCurrentRef = -1
       IN  /\ (Render /\ notesInMeasure(nx) # notesInMeasure(st)) => patternsReset
           /\ Reset => /\ patternsReset
                       /\ ~engine'.isPlaying
                       /\ ~nx'.isPlaying
                       /\ nx'.currentBeatIndex = 0]_vars

\* Running in random mode with a pattern other than 0 on display and a guard
\* set by a transition, the render of another notesInMeasure has just run.
C37_ChangedWhileRunning ==
    /\ engine.isPlaying
    /\ st.patternMode = "random"
    /\ notesInMeasure(st) # notesInMeasure(InitialState)
    /\ st.currentPatternIndex # 0
    /\ st.nextPatternIndex # 1
    /\ nx.currentPatternIndex = 0
    /\ nx.nextPatternIndex = 1
    /\ refs.nextPatternRef = 1
    /\ refs.lastProcessedCurrentRef = -1
    /\ nx.noteValue = st.noteValue
    /\ nx.timeSignature = st.timeSignature

\* C38: reversePattern agrees with getPatternAtIndex: for every length N in
\* 0..16 and every index i in 0..2^N - 1, reversePattern(getPatternAtIndex(i, N))
\* is getPatternAtIndex(2^N - 1 - i, N), in id and in sticking, and 2^N - 1 - i is
\* an index in range.
C38_ReverseIsMirrorIndex ==
    (Len(calc.patterns) >= 2 /\ calc.length <= 16) =>
        LET N == calc.length
            mirror == WideSub(WideSub(WidePow2(N), ToWide(1)), calc.index)
        IN  /\ InRange(mirror, N)
            /\ calc.patterns[2].id = getPatternAtIndex(mirror, N).id
            /\ calc.patterns[2].sticking = getPatternAtIndex(mirror, N).sticking

\* Length 16, index 1: the reversal is the pattern of index 65534, fifteen 'L'
\* and then an 'R'.
C38_MirrorOfOne ==
    /\ calc.length = 16
    /\ calc.index = ToWide(1)
    /\ Len(calc.patterns) >= 2
    /\ calc.patterns[1].sticking[16] = "L"
    /\ calc.patterns[2].id = ToWide(65534)
    /\ calc.patterns[2].sticking = [k \in 1..16 |-> IF k < 16 THEN "L" ELSE "R"]
====
